---- MODULE Spec2Model ----
(***************************************************************************)
(* Admission control (rate limiter middleware) of api-portfolio.           *)
(*                                                                         *)
(* One admission check is one run of rateLimiter(req, res, next).  The     *)
(* function is async: the code between two awaits runs atomically on the   *)
(* event loop, and other checks interleave at the awaits                   *)
(* (AuthService.isTokenRevoked, redis.incr, redis.expire, redis.ttl).      *)
(* Each action below is one such atomic section, together with the store   *)
(* command whose reply resumes it.  The reads of blog posts through the    *)
(* read-through cache (BlogService.getPostBySlug) are modelled the same    *)
(* way.                                                                    *)
(***************************************************************************)
EXTENDS Integers, Sequences, FiniteSets, TLC

VARIABLES
    rateConfig,       \* the table read once at module load: cfg.rateLimiter
    now,              \* Date.now(), in milliseconds
    redisReady,       \* RedisClient.isReady, and whether a command sent now is served
    redisStore,       \* the shared store's rate:* keys: key -> [count, ttl, expireAt, born]
    memoryRateStore,  \* the module-level Map: key -> [count, expiresAt]
    req,              \* the admission checks in flight, one record per slot
    started,          \* admission checks started so far
    window,           \* history: per counter key, the fixed window opened by its first check
    posts,            \* the posts table of the database: slug -> [exists, published, rev]
    blogCache,        \* the shared store's portfolio:blog:* keys
    inflight,         \* withCache's populations in progress: key -> population number
    reads,            \* the getPostBySlug calls in flight, one record per slot
    fetches,          \* history: BlogHelper.fetchAllPost runs so far
    edit,             \* the write to a post in progress (BlogService, AuthorService)
    clear,            \* the BlogService.clearAllCache call in progress
    settled,          \* history: per slug, the revision left by the last returned edit
    invalidated,      \* history: per slug, the revision at its last invalidation, until
                      \* the next lookup or refresh of the slug
    postAuthor,       \* the row of the author followed exists in table post_author
    counterStore,     \* the shared store's counter keys: key -> the integer stored
    calls             \* the CounterController requests in flight, one record per slot

writeVars == <<edit, clear, settled>>

counterVars == <<counterStore, calls>>

\* what the admission checks and the environment leave alone
blogVars == <<posts, blogCache, inflight, reads, fetches, edit, clear, settled, invalidated,
              postAuthor, counterVars>>

vars == <<rateConfig, now, redisReady, redisStore, memoryRateStore, req, started, window,
          posts, blogCache, inflight, reads, fetches, edit, clear, settled, invalidated,
          postAuthor, counterStore, calls>>

----------------------------------------------------------------------------
(* Bounds of the model *)

MaxTicks == 3
MaxReqs == 2
MaxChecks == 3
\* the slots of the key space one SCAN call visits.  The code asks for COUNT 100,
\* more than the keys the model holds; kept below them here so that a walk
\* takes several calls
ScanCount == 1

(* Program constants *)

MsPerSecond == 1000
EnvWindowSeconds == 60
EnvMaxRequests == 5

TickMs == MsPerSecond \div 2

Reqs == 1..MaxReqs

----------------------------------------------------------------------------
(* Small helpers standing for JavaScript operators *)

Max(a, b) == IF a >= b THEN a ELSE b

\* Math.ceil(x / d) for d > 0
CeilDiv(x, d) == 0 - ((0 - x) \div d)

\* a ?? b on an optional field of an object
Opt(obj, f, dflt) == IF f \in DOMAIN obj THEN obj[f] ELSE dflt

\* segs.join('/') with a leading slash: the request path as a string
RECURSIVE JoinPath(_)
JoinPath(segs) ==
    IF segs = <<>> THEN "" ELSE "/" \o Head(segs) \o JoinPath(Tail(segs))

----------------------------------------------------------------------------
(* Configuration.  config_rateLimiter.json is the operator's file;          *)
(* config/default.ts builds cfg.rateLimiter from it, copying only           *)
(* windowSeconds and maxRequests into `default`.  routes lists the entries  *)
(* in the order Object.entries yields them, each with its name as key.  A   *)
(* pattern is a list of segments: a literal, a :param placeholder, or a     *)
(* segment path-to-regexp cannot parse (match() then throws).               *)

Lit(s) == [kind |-> "lit", text |-> s]
Param(s) == [kind |-> "param", text |-> s]
Unparsable(s) == [kind |-> "bad", text |-> s]

\* the table the public and the admin routes are checked with
BlogFile ==
    [ enabled |-> "true",
      default |-> [windowSeconds |-> 2, maxRequests |-> 2],
      routes  |-> <<
        [ key |-> "blog_slug",
          match |-> [url |-> <<Lit("blog"), Param("slug")>>],
          windowSeconds |-> 1, maxRequests |-> 2 ],
        [ key |-> "blog_offset",
          match |-> [url |-> <<Lit("blog"), Lit("offset")>>, method |-> "get"],
          maxRequests |-> 1 ],
        [ key |-> "auth_login",
          match |-> [url |-> <<Lit("auth"), Lit("login")>>, method |-> "post"],
          maxRequests |-> 1 ],
        [ key |-> "logs_list",
          match |-> [url |-> <<Lit("logs")>>, method |-> "GET"],
          windowSeconds |-> 1, maxRequests |-> 1,
          adminBypass |-> TRUE, stopInRedisDown |-> TRUE ]
      >> ]

\* the two blog entries in the other order; the file's default block also sets
\* adminBypass and stopInRedisDown
ReversedFile ==
    [ enabled |-> "True",
      default |-> [windowSeconds |-> 2, maxRequests |-> 2,
                   adminBypass |-> TRUE, stopInRedisDown |-> TRUE],
      routes  |-> <<
        [ key |-> "blog_offset",
          match |-> [url |-> <<Lit("blog"), Lit("offset")>>, method |-> "get"],
          maxRequests |-> 1 ],
        [ key |-> "blog_slug",
          match |-> [url |-> <<Lit("blog"), Param("slug")>>],
          windowSeconds |-> 1, maxRequests |-> 2 ]
      >> ]

\* an entry with no match block and an entry whose pattern does not parse, ahead
\* of a valid one that sets no limit of its own; the default block is empty
BrokenFile ==
    [ enabled |-> "true",
      default |-> [f \in {} |-> 0],
      routes  |-> <<
        [ key |-> "draft", windowSeconds |-> 1, maxRequests |-> 1 ],
        [ key |-> "blog_bad",
          match |-> [url |-> <<Lit("blog"), Unparsable(":")>>],
          maxRequests |-> 1 ],
        [ key |-> "blog_slug",
          match |-> [url |-> <<Lit("blog"), Param("slug")>>] ]
      >> ]

ConfigFiles == {BlogFile, ReversedFile, BrokenFile}

\* the first table with the limiter switched off
DisabledFile == [BlogFile EXCEPT !.enabled = "false"]

\* String.prototype.toLowerCase on the spellings of the enabled flag in use
ToLowerCase(s) ==
    CASE s \in {"true", "True", "TRUE"} -> "true"
      [] s \in {"false", "False", "FALSE"} -> "false"
      [] OTHER -> s

\* cfg.rateLimiter as config/default.ts builds it (RATE_LIMITER_ENABLED unset)
LoadConfig(file) ==
    [ enabled |-> ToLowerCase(file.enabled) = "true",
      default |-> [f \in DOMAIN file.default \cap {"windowSeconds", "maxRequests"} |->
                     file.default[f]],
      routes  |-> file.routes ]

\* String.prototype.toUpperCase on the method names in use
ToUpperCase(m) ==
    CASE m \in {"get", "GET"} -> "GET"
      [] m \in {"post", "POST"} -> "POST"
      [] m \in {"delete", "DELETE"} -> "DELETE"
      [] OTHER -> m

\* normalizeUrl: drops a trailing slash
normalizeUrl(url) == [segs |-> url.segs]

\* match(configUrl, ...) returns a matcher (TRUE) or throws (FALSE)
PatternParses(pattern) == \A i \in 1..Len(pattern) : pattern[i].kind # "bad"

\* path-to-regexp match(pattern)(path): segment by segment, a :param matches any
\* one segment
RECURSIVE MatchSegs(_, _)
MatchSegs(pattern, segs) ==
    IF pattern = <<>> \/ segs = <<>> THEN pattern = <<>> /\ segs = <<>>
    ELSE /\ (Head(pattern).kind = "param" \/ Head(pattern).text = Head(segs))
         /\ MatchSegs(Tail(pattern), Tail(segs))

\* Faulty variant of Defaults: the method is compared as it was received
DefaultsCaseSensitive(method) ==
    [ windowSeconds |-> EnvWindowSeconds,
      maxRequests |-> EnvMaxRequests,
      adminBypass |-> FALSE,
      stopInRedisDown |-> method \in {"POST", "PUT", "PATCH", "DELETE"} ]

\* the hard-coded defaults of getLimitsContext
Defaults(method) ==
    [ windowSeconds |-> EnvWindowSeconds,
      maxRequests |-> EnvMaxRequests,
      adminBypass |-> FALSE,
      stopInRedisDown |-> ToUpperCase(method) # "GET" ]

\* Faulty variant of RouteContext: the table-wide default is not consulted
RouteContextSkipsDefault(routeCfg, defaults) ==
    [ key |-> routeCfg.key,
      windowSeconds |-> Opt(routeCfg, "windowSeconds", defaults.windowSeconds),
      maxRequests |-> Opt(routeCfg, "maxRequests", defaults.maxRequests),
      adminBypass |-> Opt(routeCfg, "adminBypass", defaults.adminBypass),
      stopInRedisDown |-> Opt(routeCfg, "stopInRedisDown", defaults.stopInRedisDown) ]

\* the context of a matched route
RouteContext(routeCfg, defaults) ==
    [ key |-> routeCfg.key,
      windowSeconds |-> Opt(routeCfg, "windowSeconds",
                            Opt(rateConfig.default, "windowSeconds", defaults.windowSeconds)),
      maxRequests |-> Opt(routeCfg, "maxRequests",
                          Opt(rateConfig.default, "maxRequests", defaults.maxRequests)),
      adminBypass |-> Opt(routeCfg, "adminBypass",
                          Opt(rateConfig.default, "adminBypass", defaults.adminBypass)),
      stopInRedisDown |-> Opt(routeCfg, "stopInRedisDown",
                              Opt(rateConfig.default, "stopInRedisDown", defaults.stopInRedisDown)) ]

\* Faulty variant of FallbackContext: one key for every unmatched path
FallbackContextOneBucket(currentUrl, defaults) ==
    [ key |-> "default:",
      windowSeconds |-> Opt(rateConfig.default, "windowSeconds", defaults.windowSeconds),
      maxRequests |-> Opt(rateConfig.default, "maxRequests", defaults.maxRequests),
      adminBypass |-> Opt(rateConfig.default, "adminBypass", FALSE),
      stopInRedisDown |-> Opt(rateConfig.default, "stopInRedisDown", defaults.stopInRedisDown) ]

\* the context of the default bucket
FallbackContext(currentUrl, defaults) ==
    [ key |-> "default:" \o JoinPath(currentUrl.segs),
      windowSeconds |-> Opt(rateConfig.default, "windowSeconds", defaults.windowSeconds),
      maxRequests |-> Opt(rateConfig.default, "maxRequests", defaults.maxRequests),
      adminBypass |-> Opt(rateConfig.default, "adminBypass", FALSE),
      stopInRedisDown |-> Opt(rateConfig.default, "stopInRedisDown", defaults.stopInRedisDown) ]

\* Faulty variant of TryRoute: an entry whose pattern does not compile answers
\* every path
TryRouteInvalidMatches(routeCfg, currentUrl, currentMethod) ==
    IF "match" \notin DOMAIN routeCfg THEN "skip"
    ELSE IF ToUpperCase(Opt(routeCfg.match, "method", "GET")) # currentMethod THEN "continue"
    ELSE IF ~PatternParses(routeCfg.match.url) THEN "hit"
    ELSE IF MatchSegs(routeCfg.match.url, currentUrl.segs) THEN "hit"
    ELSE "miss"

\* One turn of the loop over the entries: "skip" (no match block), "continue"
\* (another method), "throw" (the pattern does not compile; caught and logged),
\* "hit" (return) or "miss".
TryRoute(routeCfg, currentUrl, currentMethod) ==
    IF "match" \notin DOMAIN routeCfg THEN "skip"
    ELSE IF ToUpperCase(Opt(routeCfg.match, "method", "GET")) # currentMethod THEN "continue"
    ELSE IF ~PatternParses(routeCfg.match.url) THEN "throw"
    ELSE IF MatchSegs(routeCfg.match.url, currentUrl.segs) THEN "hit"
    ELSE "miss"

\* Faulty variant of ScanRoutes: a match does not end the loop, so the last
\* matching entry wins
RECURSIVE ScanRoutesLastWins(_, _, _, _)
ScanRoutesLastWins(routes, i, currentUrl, currentMethod) ==
    IF i > Len(routes) THEN [hit |-> 0, compiled |-> {}, invalid |-> {}]
    ELSE LET turn == TryRoute(routes[i], currentUrl, currentMethod)
             rest == ScanRoutesLastWins(routes, i + 1, currentUrl, currentMethod)
         IN  CASE turn = "hit" -> [rest EXCEPT !.hit = IF @ = 0 THEN i ELSE @,
                                               !.compiled = @ \cup {i}]
               [] turn = "throw" -> [rest EXCEPT !.compiled = @ \cup {i},
                                                 !.invalid = @ \cup {i}]
               [] turn = "miss" -> [rest EXCEPT !.compiled = @ \cup {i}]
               [] OTHER -> rest

\* Faulty variant of ScanRoutes: the first pattern that does not compile ends the
\* loop (the try block around the loop instead of inside it)
RECURSIVE ScanRoutesStopsAtError(_, _, _, _)
ScanRoutesStopsAtError(routes, i, currentUrl, currentMethod) ==
    IF i > Len(routes) THEN [hit |-> 0, compiled |-> {}, invalid |-> {}]
    ELSE LET turn == TryRoute(routes[i], currentUrl, currentMethod)
             rest == ScanRoutesStopsAtError(routes, i + 1, currentUrl, currentMethod)
         IN  CASE turn = "hit" -> [hit |-> i, compiled |-> {i}, invalid |-> {}]
               [] turn = "throw" -> [hit |-> 0, compiled |-> {i}, invalid |-> {i}]
               [] turn = "miss" -> [rest EXCEPT !.compiled = @ \cup {i}]
               [] OTHER -> rest

\* The loop from entry i on: the index of the entry it returns at (0: none), the
\* entries whose pattern it compiled and those it logged as invalid.
RECURSIVE ScanRoutes(_, _, _, _)
ScanRoutes(routes, i, currentUrl, currentMethod) ==
    IF i > Len(routes) THEN [hit |-> 0, compiled |-> {}, invalid |-> {}]
    ELSE LET turn == TryRoute(routes[i], currentUrl, currentMethod)
             rest == ScanRoutes(routes, i + 1, currentUrl, currentMethod)
         IN  CASE turn = "hit" -> [hit |-> i, compiled |-> {i}, invalid |-> {}]
               [] turn = "throw" -> [rest EXCEPT !.compiled = @ \cup {i},
                                                 !.invalid = @ \cup {i}]
               [] turn = "miss" -> [rest EXCEPT !.compiled = @ \cup {i}]
               [] OTHER -> rest

\* Faulty variant of RouteScan: the enabled flag is not consulted
RouteScanIgnoresEnabled(r) ==
    ScanRoutes(rateConfig.routes, 1, normalizeUrl(r.url), ToUpperCase(r.method))

\* the loop as getLimitsContext runs it for request r
RouteScan(r) ==
    IF rateConfig.enabled
    THEN ScanRoutes(rateConfig.routes, 1, normalizeUrl(r.url), ToUpperCase(r.method))
    ELSE [hit |-> 0, compiled |-> {}, invalid |-> {}]

getLimitsContext(r) ==
    LET defaults == Defaults(r.method)
        scan == RouteScan(r)
    IN  IF scan.hit # 0
        THEN RouteContext(rateConfig.routes[scan.hit], defaults)
        ELSE FallbackContext(normalizeUrl(r.url), defaults)

----------------------------------------------------------------------------
(* Requests *)

\* the client identifier of line 216
ClientIp(r) ==
    IF r.ip # "" THEN r.ip
    ELSE IF r.xff # "" THEN r.xff
    ELSE IF r.remoteAddress # "" THEN r.remoteAddress
    ELSE "unknown"

\* authHeader && authHeader.split(' ')[1]: the header is a list of words
BearerToken(r) == IF Len(r.authorization) >= 2 THEN r.authorization[2] ELSE ""

Url(segs) == [segs |-> segs, slash |-> FALSE]

Request(method, segs, ip, xff, auth) ==
    [ method |-> method, url |-> Url(segs), ip |-> ip, xff |-> xff,
      remoteAddress |-> "", authorization |-> auth ]

\* The requests the environment sends to the public blog route: two clients, the
\* second one known by its x-forwarded-for header only.
QuotaInputs ==
    { Request("GET", <<"blog", "a">>, "10.0.0.1", "", <<>>),
      Request("GET", <<"blog", "a">>, "", "10.0.0.2", <<>>) }

\* The requests the environment sends to the admin route (adminBypass, strict on
\* outage).  Tokens: tok_admin is signed and not revoked, tok_revoked is signed
\* and on the revocation list, tok_forged fails jwt.verify.
AdminInputs ==
    { Request("GET", <<"logs">>, "10.0.0.1", "", auth) :
        auth \in { <<>>, <<"Bearer", "tok_admin">>, <<"Bearer", "tok_revoked">>,
                   <<"Bearer", "tok_forged">> } }

\* The requests the environment sends while the table varies, all from one client:
\* a path two blog patterns answer, two paths no entry answers, and a mutating
\* request with its method in lower case.
TableInputs ==
    { Request("GET", <<"blog", "offset">>, "10.0.0.1", "", <<>>),
      Request("GET", <<"x">>, "10.0.0.1", "", <<>>),
      Request("GET", <<"y">>, "10.0.0.1", "", <<>>),
      Request("post", <<"auth", "login">>, "10.0.0.1", "", <<>>) }

RevokedTokens == {"tok_revoked"}
SignedTokens == {"tok_admin", "tok_revoked"}

\* jwt.verify(token, secret) returns (TRUE) or throws (FALSE)
jwtVerify(token) == token \in SignedTokens

\* AuthService.isTokenRevoked(token, { failOpen }): the lookup of auth:token:<token>;
\* a failed lookup counts as "not revoked" when failOpen is set
isTokenRevoked(token, failOpen, ready) ==
    IF ready THEN token \in RevokedTokens ELSE ~failOpen

----------------------------------------------------------------------------
(* The shared store (Redis), as the rate limiter uses it.  A key with a TTL *)
(* is gone once the clock has passed its expiry; the entry is then replaced *)
(* by the next INCR (lazy expiry).                                          *)

RedisLive(store, key, t) ==
    /\ key \in DOMAIN store
    /\ (store[key].hasTtl => t <= store[key].expireAt)

\* Faulty variant of RedisIncr: the increment of an existing key is not written back
RedisIncrNoWrite(store, key, t) ==
    IF RedisLive(store, key, t)
    THEN store
    ELSE [k \in DOMAIN store \cup {key} |->
            IF k = key THEN [count |-> 1, hasTtl |-> FALSE, expireAt |-> 0, born |-> t]
            ELSE store[k]]

\* INCR key: atomic increment-and-read, creating the key at 1 with no TTL
RedisIncr(store, key, t) ==
    IF RedisLive(store, key, t)
    THEN [store EXCEPT ![key].count = @ + 1]
    ELSE [k \in DOMAIN store \cup {key} |->
            IF k = key THEN [count |-> 1, hasTtl |-> FALSE, expireAt |-> 0, born |-> t]
            ELSE store[k]]

\* EXPIRE key seconds
RedisExpire(store, key, seconds, t) ==
    IF RedisLive(store, key, t)
    THEN [store EXCEPT ![key].hasTtl = TRUE, ![key].expireAt = t + seconds * MsPerSecond]
    ELSE store

\* TTL key: -2 without the key, -1 without a TTL, else the remaining seconds, rounded
RedisTtl(store, key, t) ==
    IF ~RedisLive(store, key, t) THEN 0 - 2
    ELSE IF ~store[key].hasTtl THEN 0 - 1
    ELSE (store[key].expireAt - t + (MsPerSecond \div 2)) \div MsPerSecond

\* Faulty variant of RedisKey: the client is left out of the key
RedisKeyNoClient(routeKey, ip) == "rate:" \o routeKey

RedisKey(routeKey, ip) == "rate:" \o routeKey \o ":" \o ip

MemoryKey(routeKey, ip) == "mem-rate:" \o routeKey \o ":" \o ip

----------------------------------------------------------------------------
(* The local fallback *)

\* Faulty variant of MemoryExpired: a record is still live at the instant it expires
MemoryExpiredStrict(store, key, t) ==
    key \notin DOMAIN store \/ store[key].expiresAt < t

\* !current || current.expiresAt <= now
MemoryExpired(store, key, t) ==
    key \notin DOMAIN store \/ store[key].expiresAt <= t

\* Faulty variant of checkInMemoryRateLimit: the quota is compared one too high
checkInMemoryRateLimitLoose(store, key, windowSeconds, maxRequests, t) ==
    IF MemoryExpired(store, key, t)
    THEN [ store |-> [k \in DOMAIN store \cup {key} |->
                        IF k = key
                        THEN [count |-> 1, expiresAt |-> t + windowSeconds * MsPerSecond]
                        ELSE store[k]],
           exceeded |-> FALSE,
           count |-> 1,
           remaining |-> Max(0, maxRequests - 1),
           retryAfter |-> windowSeconds ]
    ELSE LET count == store[key].count + 1 IN
         [ store |-> [store EXCEPT ![key].count = count],
           exceeded |-> count > maxRequests + 1,
           count |-> count,
           remaining |-> Max(0, maxRequests - count),
           retryAfter |-> Max(1, CeilDiv(store[key].expiresAt - t, MsPerSecond)) ]

\* Faulty variant of checkInMemoryRateLimit: a hit on a live record moves its
\* expiry forward
checkInMemoryRateLimitSliding(store, key, windowSeconds, maxRequests, t) ==
    LET fresh == [count |-> 1, expiresAt |-> t + windowSeconds * MsPerSecond]
        count == IF MemoryExpired(store, key, t) THEN 1 ELSE store[key].count + 1
    IN  [ store |-> [k \in DOMAIN store \cup {key} |->
                       IF k = key THEN [fresh EXCEPT !.count = count] ELSE store[k]],
          exceeded |-> count > maxRequests,
          count |-> count,
          remaining |-> Max(0, maxRequests - count),
          retryAfter |-> windowSeconds ]

\* Faulty variant of checkInMemoryRateLimit: the records found expired are
\* dropped from the map on the way
checkInMemoryRateLimitPruning(store, key, windowSeconds, maxRequests, t) ==
    LET kept == { k \in DOMAIN store : ~MemoryExpired(store, k, t) }
        count == IF key \in kept THEN store[key].count + 1 ELSE 1
    IN  [ store |-> [k \in kept \cup {key} |->
                       IF k # key THEN store[k]
                       ELSE IF key \in kept THEN [store[key] EXCEPT !.count = count]
                       ELSE [count |-> 1, expiresAt |-> t + windowSeconds * MsPerSecond]],
          exceeded |-> count > maxRequests,
          count |-> count,
          remaining |-> Max(0, maxRequests - count),
          retryAfter |-> IF key \in kept
                         THEN Max(1, CeilDiv(store[key].expiresAt - t, MsPerSecond))
                         ELSE windowSeconds ]

checkInMemoryRateLimit(store, key, windowSeconds, maxRequests, t) ==
    IF MemoryExpired(store, key, t)
    THEN [ store |-> [k \in DOMAIN store \cup {key} |->
                        IF k = key
                        THEN [count |-> 1, expiresAt |-> t + windowSeconds * MsPerSecond]
                        ELSE store[k]],
           exceeded |-> FALSE,
           count |-> 1,
           remaining |-> Max(0, maxRequests - 1),
           retryAfter |-> windowSeconds ]
    ELSE LET count == store[key].count + 1 IN
         [ store |-> [store EXCEPT ![key].count = count],
           exceeded |-> count > maxRequests,
           count |-> count,
           remaining |-> Max(0, maxRequests - count),
           retryAfter |-> Max(1, CeilDiv(store[key].expiresAt - t, MsPerSecond)) ]

----------------------------------------------------------------------------
(* History, kept for the properties only: the fixed window a counter key is *)
(* in.  A check that finds no tracked window still open opens one if it     *)
(* observed the count 1 (it is the first one); a check made less than       *)
(* windowSeconds after the first one is the next of that window.            *)

InWindow(win, key, windowSeconds, t) ==
    key \in DOMAIN win /\ t < win[key].t0 + windowSeconds * MsPerSecond

Observe(win, key, windowSeconds, t, count) ==
    IF InWindow(win, key, windowSeconds, t)
    THEN [win EXCEPT ![key].n = @ + 1]
    ELSE IF count = 1
    THEN [k \in DOMAIN win \cup {key} |-> IF k = key THEN [t0 |-> t, n |-> 1] ELSE win[k]]
    ELSE [k \in DOMAIN win \ {key} |-> win[k]]

Ordinal(win, key) == IF key \in DOMAIN win THEN win[key].n ELSE 0

----------------------------------------------------------------------------
(* One admission check: rateLimiter(req, res, next) *)

EmptyMap == [k \in {} |-> 0]

NoRequest == Request("", <<>>, "", "", <<>>)

NoContext ==
    [ key |-> "", windowSeconds |-> 0, maxRequests |-> 0,
      adminBypass |-> FALSE, stopInRedisDown |-> FALSE ]

\* The lines the middleware hands to writeToLog, each as the set of things the
\* line names: line 244, line 265, line 297 and line 304
StrictBlockLine == {"routingKey", "method", "backend"}
FallbackLine == {"routingKey", "method", "count", "limit", "backend"}
CountLine == {"routingKey", "method", "count", "limit"}
ExceededLine == {"client", "cooldown"}

\* A slot.  pc is the await the check is suspended at; status is what it answered
\* ("next" for next(), else the HTTP status sent); store is the backend whose
\* counter it incremented; current is the count it obtained; headers and remaining
\* are the X-RateLimit-* headers set; logs is the writeToLog lines it wrote, each
\* line given by the set of things it names.  The other
\* fields record what happened on the way: bypassed (admitted by the admin
\* bypass), sawDown (found the store not ready at line 239), lookupFailed (the
\* revocation lookup was not served), storeFailed (a store command rejected),
\* threw (the catch block ran), elapsed (the counter's previous window had
\* expired), ordinal (its rank in the window, see Observe), born (creation time
\* of the shared key it incremented), compiled and invalid (the table entries
\* whose pattern the resolution compiled, and those it logged as invalid).
IdleReq ==
    [ pc |-> "idle", inp |-> NoRequest, ctx |-> NoContext, ip |-> "",
      current |-> 0, status |-> "none", retryAfter |-> 0, store |-> "none",
      headers |-> {}, remaining |-> 0, logs |-> <<>>,
      bypassed |-> FALSE, sawDown |-> FALSE, lookupFailed |-> FALSE,
      storeFailed |-> FALSE, threw |-> FALSE,
      elapsed |-> FALSE, ordinal |-> 0, born |-> 0,
      compiled |-> {}, invalid |-> {} ]

\* next() with the informational headers
Admit(q, remaining, extraHeaders) ==
    [q EXCEPT !.pc = "done", !.status = "next", !.remaining = remaining,
              !.headers = {"X-RateLimit-Limit", "X-RateLimit-Remaining"} \cup extraHeaders]

\* res.status(429).json({ ..., retryAfter })
Deny429(q, retryAfter) ==
    [q EXCEPT !.pc = "done", !.status = "429", !.retryAfter = retryAfter]

\* the catch block of lines 317-320
Catch(q) == [q EXCEPT !.pc = "done", !.status = "next", !.threw = TRUE]

\* Faulty variant of OutageBranch: the local counter is hit before the strict-mode test
OutageBranchCountsFirst(q, mem, win, t) ==
    LET memoryKey == MemoryKey(q.ctx.key, q.ip)
        memoryResult == checkInMemoryRateLimit(mem, memoryKey, q.ctx.windowSeconds,
                                               q.ctx.maxRequests, t)
        w == Observe(win, memoryKey, q.ctx.windowSeconds, t, memoryResult.count)
        counted == [q EXCEPT !.sawDown = TRUE, !.store = "memory",
                             !.current = memoryResult.count,
                                  !.logs = Append(@, FallbackLine),
                             !.ordinal = Ordinal(w, memoryKey)]
    IN  IF q.ctx.stopInRedisDown
        THEN [ q |-> [q EXCEPT !.pc = "done", !.status = "503", !.sawDown = TRUE,
                               !.logs = Append(@, StrictBlockLine)],
               mem |-> memoryResult.store, win |-> w ]
        ELSE [ q |-> IF memoryResult.exceeded
                     THEN Deny429(counted, memoryResult.retryAfter)
                     ELSE Admit(counted, memoryResult.remaining, {"X-RateLimit-Store"}),
               mem |-> memoryResult.store, win |-> w ]

\* lines 239-279: the shared store is not ready
OutageBranch(q, mem, win, t) ==
    IF q.ctx.stopInRedisDown
    THEN [ q |-> [q EXCEPT !.pc = "done", !.status = "503", !.sawDown = TRUE,
                           !.logs = Append(@, StrictBlockLine)],
           mem |-> mem, win |-> win ]
    ELSE LET memoryKey == MemoryKey(q.ctx.key, q.ip)
             memoryResult == checkInMemoryRateLimit(mem, memoryKey, q.ctx.windowSeconds,
                                                    q.ctx.maxRequests, t)
             w == Observe(win, memoryKey, q.ctx.windowSeconds, t, memoryResult.count)
             counted == [q EXCEPT !.sawDown = TRUE, !.store = "memory",
                                  !.current = memoryResult.count,
                                  !.logs = Append(@, FallbackLine),
                                  !.elapsed = memoryKey \in DOMAIN mem
                                              /\ t >= mem[memoryKey].expiresAt,
                                  !.ordinal = Ordinal(w, memoryKey)]
         IN  [ q |-> IF memoryResult.exceeded
                     THEN Deny429(counted, memoryResult.retryAfter)
                     ELSE Admit(counted, memoryResult.remaining, {"X-RateLimit-Store"}),
               mem |-> memoryResult.store, win |-> w ]

\* Faulty variant of Gate: the local counter is hit on every check, also when
\* the shared store is ready
GateCountsBoth(q, mem, win, ready, t) ==
    IF ~ready THEN OutageBranch(q, mem, win, t)
    ELSE [ q |-> [q EXCEPT !.pc = "awaitIncr"],
           mem |-> checkInMemoryRateLimit(mem, MemoryKey(q.ctx.key, q.ip),
                                          q.ctx.windowSeconds, q.ctx.maxRequests, t).store,
           win |-> win ]

\* Faulty variant of Gate: a mode flag in disguise, the check stays on the local
\* fallback while the local record of its key is live
GateSticky(q, mem, win, ready, t) ==
    IF ~ready \/ ~MemoryExpired(mem, MemoryKey(q.ctx.key, q.ip), t)
    THEN OutageBranch(q, mem, win, t)
    ELSE [ q |-> [q EXCEPT !.pc = "awaitIncr"], mem |-> mem, win |-> win ]

\* lines 239-283: backend selection, up to the call of redis.incr
Gate(q, mem, win, ready, t) ==
    IF ~ready THEN OutageBranch(q, mem, win, t)
    ELSE [ q |-> [q EXCEPT !.pc = "awaitIncr"], mem |-> mem, win |-> win ]

\* lines 226-233: the bypass is taken when the token is not revoked and verifies
BypassGranted(token, ready) ==
    ~isTokenRevoked(token, TRUE, ready) /\ jwtVerify(token)

\* Faulty variant of Decide: the quota is compared with >= instead of >
DecideOffByOne(q) ==
    IF q.current >= q.ctx.maxRequests
    THEN [q EXCEPT !.pc = "awaitTtl"]
    ELSE Admit(q, Max(0, q.ctx.maxRequests - q.current), {})

\* lines 301-316: compare to the quota
Decide(q) ==
    IF q.current > q.ctx.maxRequests
    THEN [q EXCEPT !.pc = "awaitTtl"]
    ELSE Admit(q, Max(0, q.ctx.maxRequests - q.current), {})

\* Faulty variant of AfterIncr: the count line is written only for the check
\* that opens a window
AfterIncrLogsFirst(q) ==
    IF q.current = 1 THEN [q EXCEPT !.pc = "awaitExpire", !.logs = Append(@, CountLine)]
    ELSE Decide(q)

\* lines 285-299: after redis.incr returned
AfterIncr(q) ==
    IF q.current = 1 THEN [q EXCEPT !.pc = "awaitExpire", !.logs = Append(@, CountLine)]
    ELSE Decide([q EXCEPT !.logs = Append(@, CountLine)])

----------------------------------------------------------------------------
(* Blog posts: BlogService.getPostBySlug over the read-through cache.  The  *)
(* content entry of a post and its version marker are two keys of the       *)
(* shared store, written with cfg.blog.cache_ttl, a day: no entry expires   *)
(* within the time the model covers.                                        *)

CacheTtlSeconds == 86400

Slugs == {"a", "b"}

\* the database: post a is published, post b is not; each post has its own
\* author (author: the row of post_author it references exists); rev numbers
\* the changes to what fetchAllPost returns for the slug
PostsAtStart ==
    [ slug \in Slugs |-> [exists |-> TRUE, published |-> IF slug = "a" THEN 1 ELSE 0,
                          author |-> TRUE, rev |-> 1] ]

\* BlogHelper.getCacheKey(slug)
getCacheKey(slug) == "portfolio:blog:post:" \o slug

VersionKey(slug) == "portfolio:blog:version:" \o slug

NoData == [slug |-> "", published |-> 0, rev |-> 0, fetch |-> 0]

\* BlogHelper.fetchAllPost(slug): the row as it is now; fetch numbers the run
fetchAllPost(slug, n) ==
    [ slug |-> slug, published |-> posts[slug].published, rev |-> posts[slug].rev,
      fetch |-> n ]

\* Faulty variant of PostVisible: the published flag is not looked at
PostVisibleAlways(result) == TRUE

\* the callback handed to withCache throws NotFoundError unless this holds
PostVisible(result) == result.published # 0

\* Faulty variant of ReadPath: every read goes to the database
ReadPathAlwaysDatabase(isAuthenticated) == "database"

\* getPostBySlug: an authenticated read goes to the database, any other one
\* through withCache
ReadPath(isAuthenticated) == IF isAuthenticated THEN "database" ELSE "cache"

\* A slot.  pc is the await the call is suspended at; role is what withCache
\* made of it ("hit", "leader": it runs the callback, "joined": it waits for the
\* leader's result); from is the number of the population its result comes from;
\* result is "ok" or the error thrown to the caller; version is the timestamp it
\* writes to the version marker; after is history: the revision of the slug at
\* the invalidation the call came after, no lookup or refresh of the slug lying
\* between the two.
IdleRead ==
    [ pc |-> "idle", slug |-> "", auth |-> FALSE, role |-> "none", from |-> 0,
      data |-> NoData, cached |-> FALSE, cacheStatus |-> "none", result |-> "none",
      version |-> 0, after |-> 0 ]

\* SETEX key ttl value
CacheSetEx(store, key, value, t) ==
    [k \in DOMAIN store \cup {key} |->
        IF k = key THEN [value |-> value, expireAt |-> t + CacheTtlSeconds * MsPerSecond]
        ELSE store[k]]

\* Faulty variant of AfterHit: the version marker is refreshed on a hit too
AfterHitRefreshes(q, data, ready, t) ==
    IF ready
    THEN [q EXCEPT !.pc = "awaitVersion", !.role = "hit", !.data = data, !.cached = TRUE,
                   !.version = t]
    ELSE [q EXCEPT !.pc = "done", !.result = "ok", !.role = "hit", !.cached = TRUE,
                   !.cacheStatus = "cache_hit", !.data = data]

\* lines 285-290: withCache returned the entry, cached: true; nothing is written
AfterHit(q, data, ready, t) ==
    [q EXCEPT !.pc = "done", !.result = "ok", !.role = "hit", !.cached = TRUE,
              !.cacheStatus = "cache_hit", !.data = data]

\* lines 275-283, up to the write of the version marker: updatePostVersion
\* returns false at once when the store is not ready
AfterPopulation(q, data, ready, t) ==
    IF ready
    THEN [q EXCEPT !.pc = "awaitVersion", !.data = data, !.cached = FALSE, !.version = t]
    ELSE [q EXCEPT !.pc = "done", !.data = data, !.cached = FALSE, !.result = "ok",
                   !.cacheStatus = "cache_created", !.version = t]

----------------------------------------------------------------------------
(* Writes to a post.  Each handler changes the database first and then calls *)
(* the cache: BlogHelper.updateCacheKey (a refresh) or deleteCacheBySlug (an *)
(* invalidation), inside a try/catch.                                        *)

WriteOps ==
    { "createPost", "updatePostBySlug", "publishedPostBySlug", "indexedPostBySlug",
      "deletePostBySlug", "AuthorService.delete" }

\* the five handlers of BlogService that write a post
PostWrites == WriteOps \ {"AuthorService.delete"}

\* the handlers the cache call of which is an invalidation
Invalidating == { "deletePostBySlug", "AuthorService.delete" }

\* The statement each handler of BlogService sends to the database, on the row
\* of slug: the new row, and whether a row was changed (.returning().get() gave
\* one).  flag is data.published of createPost and publish of
\* publishedPostBySlug.
DbChange(op, row, flag) ==
    LET touched == [row EXCEPT !.rev = @ + 1] IN
    CASE op = "createPost" ->
           IF row.exists THEN [ok |-> FALSE, row |-> row, error |-> "ValidationError"]
           ELSE [ok |-> TRUE, error |-> "none",
                 row |-> [touched EXCEPT !.exists = TRUE, !.author = FALSE,
                                         !.published = IF flag THEN 1 ELSE 0]]
      [] op = "publishedPostBySlug" ->
           IF ~row.exists THEN [ok |-> FALSE, row |-> row, error |-> "NotFoundError"]
           ELSE [ok |-> TRUE, error |-> "none",
                 row |-> [touched EXCEPT !.published = IF flag THEN 1 ELSE 0]]
      [] op = "deletePostBySlug" ->
           IF ~row.exists THEN [ok |-> FALSE, row |-> row, error |-> "NotFoundError"]
           ELSE [ok |-> TRUE, error |-> "none",
                 row |-> [touched EXCEPT !.exists = FALSE, !.published = 0,
                                         !.author = FALSE]]
      [] OTHER ->
           IF ~row.exists THEN [ok |-> FALSE, row |-> row, error |-> "NotFoundError"]
           ELSE [ok |-> TRUE, error |-> "none", row |-> touched]

\* pc is the await the handler is suspended at; dbChanged: its statement changed
\* a row; cache is how its cache call ended ("none": no call was made, "ok",
\* "skipped": the store was not ready, "threw"); result is "ok" for the
\* handler's success result, else the error it threw or the false it returned.
\* For AuthorService.delete: existed (the author's row was there when it was
\* called), slugs (the posts its select found), requested (the slugs it called
\* deleteCacheBySlug for), pending (those whose DEL is not answered yet, in the
\* order of the calls) and failed (those whose call rejected).
IdleEdit ==
    [ pc |-> "idle", op |-> "none", slug |-> "", flag |-> FALSE, dbChanged |-> FALSE,
      cache |-> "none", result |-> "none",
      existed |-> FALSE, slugs |-> {}, requested |-> {}, pending |-> <<>>, failed |-> {} ]

\* Faulty variant of WriteOutcome: an error of the cache call is rethrown
WriteOutcomeRethrows(q, cache) ==
    [q EXCEPT !.pc = "done", !.cache = cache,
              !.result = IF cache = "threw" THEN "Error" ELSE "ok"]

\* the catch blocks round the cache calls (lines 337-340, 410-412, 440-444,
\* 475-479, 500-502) and Promise.allSettled in AuthorService.delete: the handler
\* returns its success result however the cache call ended
WriteOutcome(q, cache) ==
    [q EXCEPT !.pc = "done", !.cache = cache, !.result = "ok"]

\* Author.service.ts lines 91-95: the slugs of the posts whose author_id is the
\* author's
AuthorSlugs(table) == { slug \in Slugs : table[slug].exists /\ table[slug].author }

\* the posts table once the author's row is gone: what the posts of the author
\* show with their author has changed
AuthorGone(table) ==
    [slug \in Slugs |->
        IF slug \in AuthorSlugs(table)
        THEN [table[slug] EXCEPT !.author = FALSE, !.rev = @ + 1]
        ELSE table[slug]]

\* the order in which a select returns the rows of the posts table
PostOrder == <<"a", "b">>

\* slugs.map(...): the calls are made in the order of the select
RECURSIVE InOrder(_, _)
InOrder(order, slugs) ==
    IF order = <<>> THEN <<>>
    ELSE IF Head(order) \in slugs THEN <<Head(order)>> \o InOrder(Tail(order), slugs)
    ELSE InOrder(Tail(order), slugs)

\* Faulty variant of AllSettled: Promise.all, the first rejection is thrown
AllSettledAsAll(q, failed) ==
    [q EXCEPT !.pc = "done", !.failed = failed,
              !.cache = IF failed = {} THEN "ok" ELSE "threw",
              !.result = IF failed = {} THEN "ok" ELSE "Error"]

\* Author.service.ts lines 104-110: Promise.allSettled has resolved, whatever
\* the calls did; return true
AllSettled(q, failed) ==
    [q EXCEPT !.pc = "done", !.failed = failed,
              !.cache = IF failed = {} THEN "ok" ELSE "threw",
              !.result = "ok"]

\* DEL key [key ...]: one command
CacheDel(store, keys) == [k \in DOMAIN store \ keys |-> store[k]]

\* the keys deleteCacheBySlug hands to DEL: lines 513-514 and 524
SlugKeys(slug) == { getCacheKey(slug), VersionKey(slug) }

\* BlogHelper.updateCacheKey(slug) on a reachable store: the content entry and
\* the version marker of a post that is visible are overwritten with the row
\* as it is now and a fresh timestamp; those of a post that is not are removed
Refresh(store, slug, t) ==
    LET data == fetchAllPost(slug, 0) IN
    IF PostVisible(data)
    THEN CacheSetEx(CacheSetEx(store, getCacheKey(slug), data, t), VersionKey(slug), t, t)
    ELSE CacheDel(store, SlugKeys(slug))

\* the edits C22 is about leave their revision to compare later hits with
Settles(q) ==
    \/ q.op \in {"updatePostBySlug", "deletePostBySlug"}
    \/ q.op = "publishedPostBySlug" /\ ~q.flag

Settle(hist, q, table) ==
    IF Settles(q) THEN [hist EXCEPT ![q.slug] = table[q.slug].rev] ELSE hist

NoRevisions == [slug \in Slugs |-> 0]

----------------------------------------------------------------------------
(* BlogService.clearAllCache: two SCAN loops, over the content entries and  *)
(* over the version markers, each batch deleted with one DEL.               *)

\* the order in which SCAN walks the key space
ScanOrder == <<"a", "b">>

\* MATCH of the first loop (BlogHelper.getCacheKey('*')) and of the second one
ScanPrefix(phase) ==
    IF phase = "posts" THEN "portfolio:blog:post:" ELSE "portfolio:blog:version:"

\* SCAN cursor MATCH pattern COUNT n: the matching keys among the slots visited,
\* and the next cursor, 0 when the walk is over
Scan(store, cursor, phase) ==
    LET last == IF cursor + ScanCount < Len(ScanOrder) THEN cursor + ScanCount
                ELSE Len(ScanOrder)
    IN  [ keys |-> { ScanPrefix(phase) \o ScanOrder[i] : i \in (cursor + 1)..last }
                      \cap DOMAIN store,
          cursor |-> IF last = Len(ScanOrder) THEN 0 ELSE last ]

\* pc is the await the call is suspended at; keys is the batch handed to DEL;
\* total and batches are totalKeysCleared and batchCount; removed is history:
\* the keys its DEL commands removed; status is the status of the result, or
\* "Error" when the call threw
IdleClear ==
    [ pc |-> "idle", phase |-> "none", cursor |-> 0, keys |-> {}, total |-> 0,
      batches |-> 0, removed |-> 0, status |-> "none" ]

\* lines 539-547
ClearSkipped == [IdleClear EXCEPT !.pc = "done", !.status = "skipped"]

\* lines 592-595: an error of SCAN or DEL is rethrown
ClearThrows(q) == [q EXCEPT !.pc = "done", !.status = "Error"]

\* lines 567-569 and 582-591: the loop goes on with the cursor, the second loop
\* follows the first, the result follows the second
AfterBatch(q) ==
    IF q.cursor # 0 THEN [q EXCEPT !.pc = "awaitScan", !.keys = {}]
    ELSE IF q.phase = "posts"
    THEN [q EXCEPT !.pc = "awaitScan", !.phase = "versions", !.keys = {}]
    ELSE [q EXCEPT !.pc = "done", !.status = "success", !.keys = {}]

\* lines 562-563 and 577-578: the batch counts for its length; n of its keys
\* were there for DEL to remove
CountBatch(q, n) ==
    [q EXCEPT !.total = @ + Cardinality(q.keys), !.batches = @ + 1, !.removed = @ + n]

----------------------------------------------------------------------------
(* Named counters: CounterController over the shared store.  One counter is *)
(* followed; its value is the integer the stored string spells, and a key   *)
(* that does not exist reads as null.                                       *)

\* getValidatedRedisKey(name) for the counter followed
VisitsKey == "portfolio:counter:visits"

CounterOps == {"incrementCounter", "decrementCounter", "resetCounter"}

\* RedisClient.exists(key) === 1
CounterExists(store, key) == key \in DOMAIN store

\* RedisClient.get(key): the value, or nothing (null)
CounterGet(store, key) == IF key \in DOMAIN store THEN {store[key]} ELSE {}

\* RedisClient.decr(key): a key that does not exist counts as 0
CounterDecr(store, key) ==
    [k \in DOMAIN store \cup {key} |->
        IF k = key THEN (IF key \in DOMAIN store THEN store[key] ELSE 0) - 1
        ELSE store[k]]

\* RedisService.incrementCounter(key): "If non-existent, it is created and set to 1"
CounterIncr(store, key) ==
    [k \in DOMAIN store \cup {key} |->
        IF k = key THEN (IF key \in DOMAIN store THEN store[key] ELSE 0) + 1
        ELSE store[k]]

\* RedisService.setCounter(key, value)
CounterSet(store, key, value) ==
    [k \in DOMAIN store \cup {key} |-> IF k = key THEN value ELSE store[k]]

\* A slot.  pc is the await the request is suspended at; existBefore,
\* currentValue and newValue are the handler's locals; status is the HTTP
\* status answered.
IdleCall ==
    [ pc |-> "idle", op |-> "none", existBefore |-> FALSE, currentValue |-> {},
      newValue |-> 0, status |-> "none" ]

\* the catch blocks: 503 when the error says the client is not connected, 500
\* otherwise
CallFails(q, status) == [q EXCEPT !.pc = "done", !.status = status]

\* lines 168-174: the test of the value read
AfterGet(q, currentValue) ==
    IF currentValue = {0}
    THEN [q EXCEPT !.pc = "done", !.status = "400", !.currentValue = currentValue]
    ELSE [q EXCEPT !.pc = "awaitDecr", !.currentValue = currentValue]

----------------------------------------------------------------------------
(* Actions *)

\* A finished check answers before anything else happens: the response is
\* written in the atomic section that decided it.
NoneDone ==
    /\ \A r \in Reqs : req[r].pc # "done"
    /\ \A r \in Reqs : reads[r].pc # "done"
    /\ edit.pc # "done"
    /\ clear.pc # "done"

\* the process after the module has loaded, before any request
Boot ==
    /\ now = 0
    /\ redisReady = TRUE
    /\ redisStore = EmptyMap
    /\ memoryRateStore = EmptyMap
    /\ req = [r \in Reqs |-> IdleReq]
    /\ started = 0
    /\ window = EmptyMap
    /\ posts = PostsAtStart
    /\ blogCache = EmptyMap
    /\ inflight = EmptyMap
    /\ reads = [r \in Reqs |-> IdleRead]
    /\ fetches = 0
    /\ edit = IdleEdit
    /\ clear = IdleClear
    /\ settled = NoRevisions
    /\ invalidated = NoRevisions
    /\ postAuthor = TRUE
    /\ counterStore = EmptyMap
    /\ calls = [c \in Reqs |-> IdleCall]

Init ==
    /\ rateConfig = LoadConfig(BlogFile)
    /\ Boot

\* the process started with any of the configuration files
InitTable ==
    /\ rateConfig \in { LoadConfig(file) : file \in ConfigFiles }
    /\ Boot

\* the process started with the limiter switched off in the file
InitDisabled ==
    /\ rateConfig = LoadConfig(DisabledFile)
    /\ Boot

\* A request enters the middleware: lines 210-237 up to the first await, or, with
\* no bypass to try, on to the backend selection.
Start(r, inp) ==
    /\ NoneDone
    /\ req[r].pc = "idle"
    /\ \A s \in Reqs : s < r => req[s].pc # "idle"
    /\ started < MaxChecks
    /\ started' = started + 1
    /\ LET q == [IdleReq EXCEPT !.inp = inp, !.ctx = getLimitsContext(inp),
                                !.ip = ClientIp(inp),
                                !.compiled = RouteScan(inp).compiled,
                                !.invalid = RouteScan(inp).invalid]
       IN  IF q.ctx.adminBypass /\ BearerToken(inp) # ""
           THEN /\ req' = [req EXCEPT ![r] = [q EXCEPT !.pc = "awaitRevoked"]]
                /\ UNCHANGED <<memoryRateStore, window>>
           ELSE LET g == Gate(q, memoryRateStore, window, redisReady, now)
                IN  /\ req' = [req EXCEPT ![r] = g.q]
                    /\ memoryRateStore' = g.mem
                    /\ window' = g.win
    /\ UNCHANGED <<rateConfig, now, redisReady, redisStore>>
    /\ UNCHANGED blogVars

\* AuthService.isTokenRevoked answers: lines 227-237, then the backend selection.
ResumeRevoked(r) ==
    /\ NoneDone
    /\ req[r].pc = "awaitRevoked"
    /\ LET q == [req[r] EXCEPT !.lookupFailed = ~redisReady]
       IN  IF BypassGranted(BearerToken(q.inp), redisReady)
           THEN /\ req' = [req EXCEPT ![r] = [q EXCEPT !.pc = "done", !.status = "next",
                                                       !.bypassed = TRUE]]
                /\ UNCHANGED <<memoryRateStore, window>>
           ELSE LET g == Gate(q, memoryRateStore, window, redisReady, now)
                IN  /\ req' = [req EXCEPT ![r] = g.q]
                    /\ memoryRateStore' = g.mem
                    /\ window' = g.win
    /\ UNCHANGED <<rateConfig, now, redisReady, redisStore, started>>
    /\ UNCHANGED blogVars

\* redis.incr is served (or fails): lines 283-299
ResumeIncr(r) ==
    /\ NoneDone
    /\ req[r].pc = "awaitIncr"
    /\ LET q == req[r]
           redisKey == RedisKey(q.ctx.key, q.ip)
       IN  IF redisReady
           THEN LET store == RedisIncr(redisStore, redisKey, now)
                    current == store[redisKey].count
                    w == Observe(window, redisKey, q.ctx.windowSeconds, now, current)
                IN  /\ redisStore' = store
                    /\ window' = w
                    /\ req' = [req EXCEPT ![r] =
                                 AfterIncr([q EXCEPT !.store = "shared", !.current = current,
                                                     !.elapsed = redisKey \in DOMAIN redisStore
                                                                 /\ ~RedisLive(redisStore, redisKey, now),
                                                     !.ordinal = Ordinal(w, redisKey),
                                                     !.born = store[redisKey].born])]
           ELSE /\ req' = [req EXCEPT ![r] = Catch([q EXCEPT !.storeFailed = TRUE])]
                /\ UNCHANGED <<redisStore, window>>
    /\ UNCHANGED <<rateConfig, now, redisReady, memoryRateStore, started>>
    /\ UNCHANGED blogVars

\* redis.expire is served (or fails): line 299, then the comparison
ResumeExpire(r) ==
    /\ NoneDone
    /\ req[r].pc = "awaitExpire"
    /\ LET q == req[r]
           redisKey == RedisKey(q.ctx.key, q.ip)
       IN  IF redisReady
           THEN /\ redisStore' = RedisExpire(redisStore, redisKey, q.ctx.windowSeconds, now)
                /\ req' = [req EXCEPT ![r] = Decide(q)]
           ELSE /\ req' = [req EXCEPT ![r] = Catch([q EXCEPT !.storeFailed = TRUE])]
                /\ UNCHANGED redisStore
    /\ UNCHANGED <<rateConfig, now, redisReady, memoryRateStore, started, window>>
    /\ UNCHANGED blogVars

\* redis.ttl is served (or fails): lines 302-309
ResumeTtl(r) ==
    /\ NoneDone
    /\ req[r].pc = "awaitTtl"
    /\ LET q == req[r]
           redisKey == RedisKey(q.ctx.key, q.ip)
       IN  req' = [req EXCEPT ![r] =
                     IF redisReady
                     THEN Deny429([q EXCEPT !.logs = Append(@, ExceededLine)],
                                  RedisTtl(redisStore, redisKey, now))
                     ELSE Catch([q EXCEPT !.storeFailed = TRUE])]
    /\ UNCHANGED <<rateConfig, now, redisReady, redisStore, memoryRateStore, started, window>>
    /\ UNCHANGED blogVars

\* the response is out; the slot is free again
Retire(r) ==
    /\ req[r].pc = "done"
    /\ req' = [req EXCEPT ![r] = IdleReq]
    /\ UNCHANGED <<rateConfig, now, redisReady, redisStore, memoryRateStore, started, window>>
    /\ UNCHANGED blogVars

Tick ==
    /\ NoneDone
    /\ now < MaxTicks * TickMs
    /\ now' = now + TickMs
    /\ UNCHANGED <<rateConfig, redisReady, redisStore, memoryRateStore, req, started, window>>
    /\ UNCHANGED blogVars

\* the connection to the shared store drops / comes back
RedisDown ==
    /\ NoneDone
    /\ redisReady
    /\ redisReady' = FALSE
    /\ UNCHANGED <<rateConfig, now, redisStore, memoryRateStore, req, started, window>>
    /\ UNCHANGED blogVars

RedisUp ==
    /\ NoneDone
    /\ ~redisReady
    /\ redisReady' = TRUE
    /\ UNCHANGED <<rateConfig, now, redisStore, memoryRateStore, req, started, window>>
    /\ UNCHANGED blogVars

\* what the blog service leaves alone
rateVars == <<rateConfig, redisStore, memoryRateStore, req, window, postAuthor, counterVars>>

\* getPostBySlug(slug, isAuthenticated) is called: lines 250-261, up to the first
\* await
StartRead(r, slug, isAuthenticated) ==
    /\ NoneDone
    /\ reads[r].pc = "idle"
    /\ \A s \in Reqs : s < r => reads[s].pc # "idle"
    /\ started < MaxChecks
    /\ started' = started + 1
    /\ reads' = [reads EXCEPT ![r] =
                   [IdleRead EXCEPT !.slug = slug, !.auth = isAuthenticated,
                                    !.after = invalidated[slug],
                                    !.pc = IF ReadPath(isAuthenticated) = "database"
                                           THEN "awaitDatabase" ELSE "awaitLookup"]]
    /\ UNCHANGED <<now, redisReady, posts, blogCache, inflight, fetches>>
    /\ UNCHANGED <<writeVars, invalidated>>
    /\ UNCHANGED rateVars

\* the database answers a read that goes round the cache: lines 251-257
ResumeDatabase(r) ==
    /\ NoneDone
    /\ reads[r].pc = "awaitDatabase"
    /\ fetches' = fetches + 1
    /\ reads' = [reads EXCEPT ![r] =
                   IF posts[reads[r].slug].exists
                   THEN [@ EXCEPT !.pc = "done", !.result = "ok", !.cached = FALSE,
                                  !.cacheStatus = "no_send",
                                  !.data = fetchAllPost(reads[r].slug, fetches + 1)]
                   ELSE [@ EXCEPT !.pc = "done", !.result = "NotFound"]]
    /\ UNCHANGED <<now, redisReady, started, posts, blogCache, inflight>>
    /\ UNCHANGED <<writeVars, invalidated>>
    /\ UNCHANGED rateVars

\* withCache looks the key up: a hit returns the entry (lines 285-290); on a miss
\* the call joins the population in progress for the key, or starts one and runs
\* the callback.  An unreachable store counts as a miss.
CacheLookup(r) ==
    /\ NoneDone
    /\ reads[r].pc = "awaitLookup"
    /\ LET key == getCacheKey(reads[r].slug) IN
       IF redisReady /\ key \in DOMAIN blogCache
       THEN /\ reads' = [reads EXCEPT ![r] =
                           AfterHit(reads[r], blogCache[key].value, redisReady, now)]
            /\ UNCHANGED <<inflight, fetches>>
       ELSE IF key \in DOMAIN inflight
       THEN /\ reads' = [reads EXCEPT ![r] =
                           [@ EXCEPT !.pc = "joined", !.role = "joined",
                                     !.from = inflight[key]]]
            /\ UNCHANGED <<inflight, fetches>>
       ELSE /\ fetches' = fetches + 1
            /\ inflight' = [k \in DOMAIN inflight \cup {key} |->
                              IF k = key THEN fetches + 1 ELSE inflight[k]]
            /\ reads' = [reads EXCEPT ![r] =
                           [@ EXCEPT !.pc = "awaitFetch", !.role = "leader",
                                     !.from = fetches + 1]]
    /\ invalidated' = [invalidated EXCEPT ![reads[r].slug] = 0]
    /\ UNCHANGED <<now, redisReady, started, posts, blogCache>>
    /\ UNCHANGED writeVars
    /\ UNCHANGED rateVars

\* the calls that wait for the population of key: its leader and those joined
Racers(key) ==
    { r \in Reqs : /\ reads[r].pc \in {"awaitFetch", "awaitSet", "joined"}
                   /\ getCacheKey(reads[r].slug) = key }

\* the callback's fetch returns: lines 263-271.  A post that is not published
\* makes the callback throw; the population ends, nothing is stored, and every
\* waiting call rethrows the error (lines 292-295).
ResumeFetch(r) ==
    /\ NoneDone
    /\ reads[r].pc = "awaitFetch"
    /\ LET key == getCacheKey(reads[r].slug)
           result == fetchAllPost(reads[r].slug, reads[r].from)
       IN  IF PostVisible(result)
           THEN /\ reads' = [reads EXCEPT ![r] = [@ EXCEPT !.pc = "awaitSet",
                                                            !.data = result]]
                /\ UNCHANGED inflight
           ELSE /\ reads' = [q \in Reqs |->
                               IF q \in Racers(key)
                               THEN [reads[q] EXCEPT !.pc = "done", !.result = "NotFound"]
                               ELSE reads[q]]
                /\ inflight' = [k \in DOMAIN inflight \ {key} |-> inflight[k]]
    /\ UNCHANGED <<now, redisReady, started, posts, blogCache, fetches>>
    /\ UNCHANGED <<writeVars, invalidated>>
    /\ UNCHANGED rateVars

\* withCache stores the result (skipped when the store is not reachable) and ends
\* the population: every waiting call gets { data, cached: false } and goes on
\* to refresh the version marker (lines 275-277).
ResumeSet(r) ==
    /\ NoneDone
    /\ reads[r].pc = "awaitSet"
    /\ LET key == getCacheKey(reads[r].slug)
           data == reads[r].data
       IN  /\ blogCache' = IF redisReady THEN CacheSetEx(blogCache, key, data, now)
                           ELSE blogCache
           /\ inflight' = [k \in DOMAIN inflight \ {key} |-> inflight[k]]
           /\ reads' = [q \in Reqs |->
                          IF q \in Racers(key)
                          THEN AfterPopulation(reads[q], data, redisReady, now)
                          ELSE reads[q]]
    /\ UNCHANGED <<now, redisReady, started, posts, fetches>>
    /\ UNCHANGED <<writeVars, invalidated>>
    /\ UNCHANGED rateVars

\* updatePostVersion's setEx is served, or throws and getPostBySlug rethrows:
\* lines 277-283 and 625-631
ResumeVersion(r) ==
    /\ NoneDone
    /\ reads[r].pc = "awaitVersion"
    /\ IF redisReady
       THEN /\ blogCache' = CacheSetEx(blogCache, VersionKey(reads[r].slug),
                                       reads[r].version, now)
            /\ reads' = [reads EXCEPT ![r] = [@ EXCEPT !.pc = "done", !.result = "ok",
                                                       !.cacheStatus = "cache_created"]]
       ELSE /\ reads' = [reads EXCEPT ![r] = [@ EXCEPT !.pc = "done", !.result = "Error"]]
            /\ UNCHANGED blogCache
    /\ UNCHANGED <<now, redisReady, started, posts, inflight, fetches>>
    /\ UNCHANGED <<writeVars, invalidated>>
    /\ UNCHANGED rateVars

\* the call has returned; the slot is free again
RetireRead(r) ==
    /\ reads[r].pc = "done"
    /\ reads' = [reads EXCEPT ![r] = IdleRead]
    /\ UNCHANGED <<now, redisReady, started, posts, blogCache, inflight, fetches>>
    /\ UNCHANGED <<writeVars, invalidated>>
    /\ UNCHANGED rateVars

\* AuthorService.delete(id) is called: Author.service.ts lines 90-102.  The
\* select and the delete run on the database; the delete gives no row when the
\* author does not exist, and, posts.author_id being declared a foreign key with
\* ON DELETE no action, is refused when the connection enforces foreign keys
\* and a post still refers to the author.
StartAuthorDelete(enforced) ==
    /\ NoneDone
    /\ edit.pc = "idle"
    /\ started < MaxChecks
    /\ started' = started + 1
    /\ LET q == [IdleEdit EXCEPT !.op = "AuthorService.delete", !.existed = postAuthor,
                                 !.slugs = AuthorSlugs(posts)]
       IN  IF ~postAuthor
           THEN /\ edit' = [q EXCEPT !.pc = "done", !.result = "false"]
                /\ UNCHANGED <<posts, postAuthor>>
           ELSE IF enforced /\ q.slugs # {}
           THEN /\ edit' = [q EXCEPT !.pc = "done", !.result = "SqliteError"]
                /\ UNCHANGED <<posts, postAuthor>>
           ELSE /\ edit' = [q EXCEPT !.pc = "afterDb", !.dbChanged = TRUE]
                /\ postAuthor' = FALSE
                /\ posts' = AuthorGone(posts)
    /\ UNCHANGED <<now, redisReady, blogCache, inflight, reads, fetches, clear, settled,
                   invalidated>>
    /\ UNCHANGED <<rateConfig, redisStore, memoryRateStore, req, window, counterVars>>

\* A write handler of BlogService is called and its statement runs on the
\* database: lines 303-329, 354-377, 422-434, 454-469, 488-496
StartWrite(op, slug, flag) ==
    /\ NoneDone
    /\ edit.pc = "idle"
    /\ started < MaxChecks
    /\ started' = started + 1
    /\ LET change == DbChange(op, posts[slug], flag)
           q == [IdleEdit EXCEPT !.op = op, !.slug = slug, !.flag = flag,
                                 !.dbChanged = change.ok]
       IN  /\ posts' = [posts EXCEPT ![slug] = change.row]
           /\ edit' = IF change.ok THEN [q EXCEPT !.pc = "afterDb"]
                      ELSE [q EXCEPT !.pc = "done", !.result = change.error]
    /\ UNCHANGED <<now, redisReady, blogCache, inflight, reads, fetches, clear, settled,
                   invalidated>>
    /\ UNCHANGED rateVars

\* The handler goes on after the database: createPost of an unpublished post
\* returns (lines 341-345); the others call the cache, deleteCacheBySlug
\* returning false at once when the store is not ready (lines 518-521).
\* deletePostBySlug calls it as BlogHelper.deleteCacheBySlug, AuthorService.delete
\* as BlogService.deleteCacheBySlug: one operation, the one lines 512-531 show.
\* AuthorService.delete calls it for every slug of its select before it awaits
\* any of the calls (Author.service.ts lines 104-108), and not at all when the
\* select found no post.
ResumeWrite ==
    /\ NoneDone
    /\ edit.pc = "afterDb"
    /\ edit' = IF edit.op = "AuthorService.delete"
               THEN IF edit.slugs = {} THEN WriteOutcome(edit, "none")
                    ELSE IF redisReady
                         THEN [edit EXCEPT !.pc = "awaitDels", !.requested = edit.slugs,
                                           !.pending = InOrder(PostOrder, edit.slugs)]
                         ELSE WriteOutcome([edit EXCEPT !.requested = edit.slugs], "skipped")
               ELSE IF edit.op = "createPost" /\ posts[edit.slug].published # 1
               THEN WriteOutcome(edit, "none")
               ELSE IF edit.op \notin Invalidating THEN [edit EXCEPT !.pc = "awaitRefresh"]
               ELSE IF redisReady THEN [edit EXCEPT !.pc = "awaitDel"]
               ELSE WriteOutcome(edit, "skipped")
    /\ settled' = IF edit'.pc = "done" THEN Settle(settled, edit, posts) ELSE settled
    /\ UNCHANGED <<now, redisReady, started, posts, blogCache, inflight, reads, fetches,
                   clear, invalidated>>
    /\ UNCHANGED rateVars

\* BlogHelper.updateCacheKey has run, or has failed on a store out of reach
ResumeRefresh ==
    /\ NoneDone
    /\ edit.pc = "awaitRefresh"
    /\ IF redisReady
       THEN /\ blogCache' = Refresh(blogCache, edit.slug, now)
            /\ invalidated' = [invalidated EXCEPT ![edit.slug] = 0]
            /\ edit' = WriteOutcome(edit, "ok")
       ELSE /\ edit' = WriteOutcome(edit, "threw")
            /\ UNCHANGED <<blogCache, invalidated>>
    /\ settled' = Settle(settled, edit, posts)
    /\ UNCHANGED <<now, redisReady, started, posts, inflight, reads, fetches, clear>>
    /\ UNCHANGED rateVars

\* RedisClient.del([key, versionKey]) is served, or throws: lines 523-530
ResumeDel ==
    /\ NoneDone
    /\ edit.pc = "awaitDel"
    /\ IF redisReady
       THEN /\ blogCache' = CacheDel(blogCache, SlugKeys(edit.slug))
            /\ invalidated' = [invalidated EXCEPT ![edit.slug] = posts[edit.slug].rev]
            /\ edit' = WriteOutcome(edit, "ok")
       ELSE /\ edit' = WriteOutcome(edit, "threw")
            /\ UNCHANGED <<blogCache, invalidated>>
    /\ settled' = Settle(settled, edit, posts)
    /\ UNCHANGED <<now, redisReady, started, posts, inflight, reads, fetches, clear>>
    /\ UNCHANGED rateVars

\* The DEL of the next of AuthorService.delete's calls is served, or throws:
\* lines 523-530; once every call has settled the handler returns
\* (Author.service.ts lines 104-110)
ResumeAuthorDel ==
    /\ NoneDone
    /\ edit.pc = "awaitDels"
    /\ LET slug == Head(edit.pending)
           failed == IF redisReady THEN edit.failed ELSE edit.failed \cup {slug}
           q == [edit EXCEPT !.pending = Tail(edit.pending), !.failed = failed]
       IN  /\ edit' = IF q.pending = <<>> THEN AllSettled(q, failed) ELSE q
           /\ IF redisReady
              THEN /\ blogCache' = CacheDel(blogCache, SlugKeys(slug))
                   /\ invalidated' = [invalidated EXCEPT ![slug] = posts[slug].rev]
              ELSE UNCHANGED <<blogCache, invalidated>>
    /\ UNCHANGED <<now, redisReady, started, posts, inflight, reads, fetches, clear, settled>>
    /\ UNCHANGED rateVars

\* the handler has returned
RetireWrite ==
    /\ edit.pc = "done"
    /\ edit' = IdleEdit
    /\ UNCHANGED <<now, redisReady, started, posts, blogCache, inflight, reads, fetches,
                   clear, settled, invalidated>>
    /\ UNCHANGED rateVars

\* clearAllCache is called: lines 539-556
StartClear ==
    /\ NoneDone
    /\ clear.pc = "idle"
    /\ started < MaxChecks
    /\ started' = started + 1
    /\ clear' = IF redisReady
                THEN [IdleClear EXCEPT !.pc = "awaitScan", !.phase = "posts"]
                ELSE ClearSkipped
    /\ UNCHANGED <<now, redisReady, posts, blogCache, inflight, reads, fetches, edit,
                   settled, invalidated>>
    /\ UNCHANGED rateVars

\* SCAN is served, or throws: lines 556-560 and 571-575
ResumeScan ==
    /\ NoneDone
    /\ clear.pc = "awaitScan"
    /\ clear' = IF ~redisReady THEN ClearThrows(clear)
                ELSE LET reply == Scan(blogCache, clear.cursor, clear.phase)
                         q == [clear EXCEPT !.cursor = reply.cursor, !.keys = reply.keys]
                     IN  IF reply.keys # {} THEN [q EXCEPT !.pc = "awaitDel"]
                         ELSE AfterBatch(q)
    /\ UNCHANGED <<now, redisReady, started, posts, blogCache, inflight, reads, fetches,
                   edit, settled, invalidated>>
    /\ UNCHANGED rateVars

\* DEL of the batch is served, or throws: lines 561-566 and 576-581
ResumeClearDel ==
    /\ NoneDone
    /\ clear.pc = "awaitDel"
    /\ IF redisReady
       THEN /\ blogCache' = CacheDel(blogCache, clear.keys)
            /\ clear' = AfterBatch(CountBatch(clear,
                                   Cardinality(clear.keys \cap DOMAIN blogCache)))
       ELSE /\ clear' = ClearThrows(clear)
            /\ UNCHANGED blogCache
    /\ UNCHANGED <<now, redisReady, started, posts, inflight, reads, fetches, edit,
                   settled, invalidated>>
    /\ UNCHANGED rateVars

\* the call has returned
RetireClear ==
    /\ clear.pc = "done"
    /\ clear' = IdleClear
    /\ UNCHANGED <<now, redisReady, started, posts, blogCache, inflight, reads, fetches,
                   edit, settled, invalidated>>
    /\ UNCHANGED rateVars

\* The public route: no bypass is configured, so no check awaits the revocation list.
Next ==
    \/ \E r \in Reqs, inp \in QuotaInputs : Start(r, inp)
    \/ \E r \in Reqs : ResumeIncr(r)
    \/ \E r \in Reqs : ResumeExpire(r)
    \/ \E r \in Reqs : ResumeTtl(r)
    \/ \E r \in Reqs : Retire(r)
    \/ Tick
    \/ RedisDown
    \/ RedisUp

Spec == Init /\ [][Next]_vars

\* The admin route
NextAdmin ==
    \/ \E r \in Reqs, inp \in AdminInputs : Start(r, inp)
    \/ \E r \in Reqs : ResumeRevoked(r)
    \/ \E r \in Reqs : ResumeIncr(r)
    \/ \E r \in Reqs : ResumeExpire(r)
    \/ \E r \in Reqs : ResumeTtl(r)
    \/ \E r \in Reqs : Retire(r)
    \/ Tick
    \/ RedisDown
    \/ RedisUp

SpecAdmin == Init /\ [][NextAdmin]_vars

\* Any of the tables, one client: a burst of requests within one clock instant,
\* the resolution of a request not depending on the time
NextTable ==
    \/ \E r \in Reqs, inp \in TableInputs : Start(r, inp)
    \/ \E r \in Reqs : ResumeIncr(r)
    \/ \E r \in Reqs : ResumeExpire(r)
    \/ \E r \in Reqs : ResumeTtl(r)
    \/ \E r \in Reqs : Retire(r)
    \/ RedisDown
    \/ RedisUp

SpecTable == InitTable /\ [][NextTable]_vars

\* The same burst against the table that is switched off
SpecDisabled == InitDisabled /\ [][NextTable]_vars

\* Reads of the two posts, by guests and by the authenticated author, while the
\* store goes down and comes back; the clock stands still, the day-long TTL of
\* the entries being out of reach anyway
NextBlog ==
    \/ \E r \in Reqs, slug \in Slugs, isAuthenticated \in BOOLEAN :
          StartRead(r, slug, isAuthenticated)
    \/ \E r \in Reqs : ResumeDatabase(r)
    \/ \E r \in Reqs : CacheLookup(r)
    \/ \E r \in Reqs : ResumeFetch(r)
    \/ \E r \in Reqs : ResumeSet(r)
    \/ \E r \in Reqs : ResumeVersion(r)
    \/ \E r \in Reqs : RetireRead(r)
    \/ RedisDown
    \/ RedisUp

SpecBlog == Init /\ [][NextBlog]_vars

\* Reads of post a, by guests and by the authenticated author, while the clock
\* runs: the timestamps written to the version marker differ
NextVersion ==
    \/ \E r \in Reqs, isAuthenticated \in BOOLEAN : StartRead(r, "a", isAuthenticated)
    \/ \E r \in Reqs : ResumeDatabase(r)
    \/ \E r \in Reqs : CacheLookup(r)
    \/ \E r \in Reqs : ResumeFetch(r)
    \/ \E r \in Reqs : ResumeSet(r)
    \/ \E r \in Reqs : ResumeVersion(r)
    \/ \E r \in Reqs : RetireRead(r)
    \/ Tick
    \/ RedisDown
    \/ RedisUp

SpecVersion == Init /\ [][NextVersion]_vars

\* Guest reads of post a while it is edited, unpublished, deleted, created
\* again or loses its author, and the store goes down and comes back
NextWrite ==
    \/ \E r \in Reqs : StartRead(r, "a", FALSE)
    \/ \E r \in Reqs : CacheLookup(r)
    \/ \E r \in Reqs : ResumeFetch(r)
    \/ \E r \in Reqs : ResumeSet(r)
    \/ \E r \in Reqs : ResumeVersion(r)
    \/ \E r \in Reqs : RetireRead(r)
    \/ \E op \in PostWrites, flag \in BOOLEAN : StartWrite(op, "a", flag)
    \/ \E enforced \in BOOLEAN : StartAuthorDelete(enforced)
    \/ ResumeWrite
    \/ ResumeRefresh
    \/ ResumeDel
    \/ ResumeAuthorDel
    \/ RetireWrite
    \/ RedisDown
    \/ RedisUp

SpecWrite == Init /\ [][NextWrite]_vars

\* Guest reads fill the cache while clearAllCache empties it, an author is
\* deleted, and the store goes down and comes back
NextClear ==
    \/ \E r \in Reqs, slug \in Slugs : StartRead(r, slug, FALSE)
    \/ \E r \in Reqs : CacheLookup(r)
    \/ \E r \in Reqs : ResumeFetch(r)
    \/ \E r \in Reqs : ResumeSet(r)
    \/ \E r \in Reqs : ResumeVersion(r)
    \/ \E r \in Reqs : RetireRead(r)
    \/ \E enforced \in BOOLEAN : StartAuthorDelete(enforced)
    \/ ResumeWrite
    \/ ResumeAuthorDel
    \/ RetireWrite
    \/ StartClear
    \/ ResumeScan
    \/ ResumeClearDel
    \/ RetireClear
    \/ RedisDown
    \/ RedisUp

SpecClear == Init /\ [][NextClear]_vars

\* An author is deleted while guests read the posts, posts are deleted, and the
\* store goes down and comes back
NextAuthor ==
    \/ \E r \in Reqs : StartRead(r, "a", FALSE)
    \/ \E r \in Reqs : CacheLookup(r)
    \/ \E r \in Reqs : ResumeFetch(r)
    \/ \E r \in Reqs : ResumeSet(r)
    \/ \E r \in Reqs : ResumeVersion(r)
    \/ \E r \in Reqs : RetireRead(r)
    \/ \E slug \in Slugs : StartWrite("deletePostBySlug", slug, FALSE)
    \/ \E enforced \in BOOLEAN : StartAuthorDelete(enforced)
    \/ ResumeWrite
    \/ ResumeDel
    \/ ResumeAuthorDel
    \/ RetireWrite
    \/ RedisDown
    \/ RedisUp

SpecAuthor == Init /\ [][NextAuthor]_vars

\* Everything but the counters and the request count
notCounterVars ==
    <<rateConfig, now, redisReady, redisStore, memoryRateStore, req, window,
      posts, blogCache, inflight, reads, fetches, edit, clear, settled, invalidated,
      postAuthor>>

\* A counter request enters its handler: lines 112-123, 159-170 and 211-217, up to
\* the first await.  resetCounter does not look at RedisClient.isReady.
StartCall(c, op) ==
    /\ calls[c].pc = "idle"
    /\ \A d \in Reqs : d < c => calls[d].pc # "idle"
    /\ started < MaxChecks
    /\ started' = started + 1
    /\ calls' = [calls EXCEPT ![c] =
                   IF op = "resetCounter" THEN [IdleCall EXCEPT !.op = op, !.pc = "awaitSet"]
                   ELSE IF ~redisReady
                        THEN [IdleCall EXCEPT !.op = op, !.pc = "done", !.status = "503"]
                        ELSE [IdleCall EXCEPT !.op = op, !.pc = "awaitExists"]]
    /\ UNCHANGED <<counterStore, notCounterVars>>

\* RedisClient.exists is served (or fails): lines 126 and 167
ResumeExists(c) ==
    /\ calls[c].pc = "awaitExists"
    /\ IF redisReady
       THEN calls' = [calls EXCEPT ![c] =
                        [@ EXCEPT !.existBefore = CounterExists(counterStore, VisitsKey),
                                  !.pc = IF calls[c].op = "incrementCounter"
                                         THEN "awaitIncr" ELSE "awaitGet"]]
       ELSE \E status \in {"500", "503"} :
                calls' = [calls EXCEPT ![c] = CallFails(@, status)]
    /\ UNCHANGED <<counterStore, started, notCounterVars>>

\* RedisClient.get is served (or fails): lines 168-174
ResumeGet(c) ==
    /\ calls[c].pc = "awaitGet"
    /\ IF redisReady
       THEN calls' = [calls EXCEPT ![c] = AfterGet(@, CounterGet(counterStore, VisitsKey))]
       ELSE \E status \in {"500", "503"} :
                calls' = [calls EXCEPT ![c] = CallFails(@, status)]
    /\ UNCHANGED <<counterStore, started, notCounterVars>>

\* RedisClient.decr is served (or fails): lines 175-185
ResumeDecr(c) ==
    /\ calls[c].pc = "awaitDecr"
    /\ IF redisReady
       THEN /\ counterStore' = CounterDecr(counterStore, VisitsKey)
            /\ calls' = [calls EXCEPT ![c] =
                           [@ EXCEPT !.pc = "done", !.status = "200",
                                     !.newValue = counterStore'[VisitsKey]]]
       ELSE /\ \E status \in {"500", "503"} :
                   calls' = [calls EXCEPT ![c] = CallFails(@, status)]
            /\ UNCHANGED counterStore
    /\ UNCHANGED <<started, notCounterVars>>

\* RedisService.incrementCounter is served (or fails): lines 128-138
ResumeCounterIncr(c) ==
    /\ calls[c].pc = "awaitIncr"
    /\ IF redisReady
       THEN /\ counterStore' = CounterIncr(counterStore, VisitsKey)
            /\ calls' = [calls EXCEPT ![c] =
                           [@ EXCEPT !.pc = "done", !.status = "200",
                                     !.newValue = counterStore'[VisitsKey]]]
       ELSE /\ \E status \in {"500", "503"} :
                   calls' = [calls EXCEPT ![c] = CallFails(@, status)]
            /\ UNCHANGED counterStore
    /\ UNCHANGED <<started, notCounterVars>>

\* RedisService.setCounter(redisKey, 0) is served (or fails): lines 217-233
ResumeCounterSet(c) ==
    /\ calls[c].pc = "awaitSet"
    /\ IF redisReady
       THEN /\ counterStore' = CounterSet(counterStore, VisitsKey, 0)
            /\ calls' = [calls EXCEPT ![c] =
                           [@ EXCEPT !.pc = "done", !.status = "200", !.newValue = 0]]
       ELSE /\ calls' = [calls EXCEPT ![c] = CallFails(@, "500")]
            /\ UNCHANGED counterStore
    /\ UNCHANGED <<started, notCounterVars>>

\* the response is out; the slot is free again
RetireCall(c) ==
    /\ calls[c].pc = "done"
    /\ calls' = [calls EXCEPT ![c] = IdleCall]
    /\ UNCHANGED <<counterStore, started, notCounterVars>>

\* Increments, decrements and resets of one counter, interleaved at their
\* awaits, while the store goes down and comes back
NextCounter ==
    \/ \E c \in Reqs, op \in CounterOps : StartCall(c, op)
    \/ \E c \in Reqs : ResumeExists(c)
    \/ \E c \in Reqs : ResumeGet(c)
    \/ \E c \in Reqs : ResumeDecr(c)
    \/ \E c \in Reqs : ResumeCounterIncr(c)
    \/ \E c \in Reqs : ResumeCounterSet(c)
    \/ \E c \in Reqs : RetireCall(c)
    \/ RedisDown
    \/ RedisUp

SpecCounter == Init /\ [][NextCounter]_vars

----------------------------------------------------------------------------
(* Properties *)

Done(r) == req[r].pc = "done"

AllInputs == QuotaInputs \cup AdminInputs \cup TableInputs
Clients == { ClientIp(inp) : inp \in AllInputs }
RouteKeys == { getLimitsContext(inp).key : inp \in AllInputs }

\* the entry of a counter key, if any
Entry(store, key) == IF key \in DOMAIN store THEN {store[key]} ELSE {}

\* C1: among the checks of one (routingKey, client) made less than windowSeconds
\* after the first one, the first maxRequests are admitted and the next is
\* answered 429 with retryAfter <= windowSeconds, on the shared counter (its
\* commands served) and on the local fallback alike.
C1_FirstNAdmittedNextDenied ==
    \A r \in Reqs :
        (Done(r) /\ req[r].ordinal >= 1 /\ ~req[r].storeFailed) =>
            /\ req[r].ordinal <= req[r].ctx.maxRequests => req[r].status = "next"
            /\ req[r].ordinal > req[r].ctx.maxRequests =>
                   /\ req[r].status = "429"
                   /\ req[r].retryAfter <= req[r].ctx.windowSeconds

C1_Witness ==
    \E r \in Reqs :
        /\ Done(r) /\ req[r].store = "shared" /\ ~req[r].storeFailed
        /\ req[r].ordinal = req[r].ctx.maxRequests + 1
        /\ req[r].status = "429" /\ req[r].retryAfter = 1

\* C2: a check that finds the window of its counter elapsed (the local record
\* with now >= expiresAt, the shared key past its TTL) is admitted and observes
\* the count 1.
C2_ElapsedWindowRestartsAtOne ==
    \A r \in Reqs :
        (Done(r) /\ req[r].elapsed) => (req[r].status = "next" /\ req[r].current = 1)

C2_Witness ==
    \E r \in Reqs :
        /\ Done(r) /\ req[r].elapsed /\ req[r].store = "memory"
        /\ req[r].current = 1 /\ req[r].status = "next"
        /\ now = memoryRateStore[MemoryKey(req[r].ctx.key, req[r].ip)].expiresAt
                 - req[r].ctx.windowSeconds * MsPerSecond
        /\ now >= req[r].ctx.windowSeconds * MsPerSecond

\* C3: a step of a check by one client leaves the counters of every other client
\* unchanged, in the shared store and in the local map.
C3_NoCrossClientLeak ==
    [][ \A r \in Reqs :
          (req'[r] # req[r] /\ req'[r].pc # "idle") =>
              \A c \in Clients \ {req'[r].ip} : \A k \in RouteKeys :
                  /\ Entry(redisStore', RedisKey(k, c)) = Entry(redisStore, RedisKey(k, c))
                  /\ Entry(memoryRateStore', MemoryKey(k, c))
                       = Entry(memoryRateStore, MemoryKey(k, c)) ]_vars

\* one client has used up its quota while the other is admitted at count 1
C3_Witness ==
    \E r \in Reqs :
        /\ Done(r) /\ req[r].status = "next" /\ req[r].current = 1
        /\ \E c \in Clients \ {req[r].ip} :
              LET k == RedisKey(req[r].ctx.key, c) IN
              /\ k \in DOMAIN redisStore
              /\ redisStore[k].count >= req[r].ctx.maxRequests

\* C4: a check that finds the shared store not ready on a route with
\* stopInRedisDown = false is counted by the local fallback, admitted if it is
\* one of the first maxRequests of its window and answered 429 otherwise.
C4_FallbackStillLimits ==
    \A r \in Reqs :
        (Done(r) /\ req[r].sawDown /\ ~req[r].ctx.stopInRedisDown) =>
            /\ req[r].store = "memory"
            /\ req[r].ordinal >= 1
            /\ req[r].status = (IF req[r].ordinal <= req[r].ctx.maxRequests
                                THEN "next" ELSE "429")

C4_Witness ==
    \E r \in Reqs :
        /\ Done(r) /\ req[r].sawDown /\ ~req[r].ctx.stopInRedisDown
        /\ req[r].ordinal = req[r].ctx.maxRequests + 1
        /\ req[r].status = "429"

\* C5: a check on a route with stopInRedisDown = true that finds the shared store
\* not ready (at the revocation lookup or at the backend selection) is answered
\* 503, whatever its headers.
C5_StrictOutageAlways503 ==
    \A r \in Reqs :
        (Done(r) /\ req[r].ctx.stopInRedisDown /\ (req[r].sawDown \/ req[r].lookupFailed))
            => req[r].status = "503"

\* C6: no step of a check that ends in 503 changes the local map or the shared
\* counters.
C6_StrictDenialTouchesNothing ==
    [][ \A r \in Reqs :
          (req'[r] # req[r] /\ (req'[r].status = "503" \/ req'[r].pc = "awaitRevoked"))
              => UNCHANGED <<redisStore, memoryRateStore>> ]_vars

C6_Witness ==
    \E r \in Reqs :
        /\ Done(r) /\ req[r].status = "503"
        /\ RedisKey(req[r].ctx.key, req[r].ip) \in DOMAIN redisStore
        /\ memoryRateStore = EmptyMap

\* C7: a check whose revocation-list lookup failed is not bypassed.
C7_FailedLookupNeverBypasses ==
    \A r \in Reqs : (Done(r) /\ req[r].lookupFailed) => ~req[r].bypassed

\* C8: a check one of whose shared-store commands failed is handled like the
\* unreachable case: 503 on a strict route, counted by the local fallback otherwise.
C8_StoreFailureHandledAsOutage ==
    \A r \in Reqs :
        (Done(r) /\ req[r].storeFailed) =>
            IF req[r].ctx.stopInRedisDown THEN req[r].status = "503"
            ELSE req[r].store = "memory"

\* C9: a check in which an exception reached the gate's catch block is answered
\* with a server error, not passed on to the handler.
C9_ExceptionIsServerError ==
    \A r \in Reqs : (Done(r) /\ req[r].threw) => req[r].status = "500"

\* C10: two checks that incremented the same shared key in the same window hold
\* different counts, and a check admitted by the shared counter holds a count of
\* at most maxRequests.
C10_AtomicIncrement ==
    /\ \A r1, r2 \in Reqs :
          ( /\ r1 # r2
            /\ req[r1].store = "shared" /\ req[r2].store = "shared"
            /\ RedisKey(req[r1].ctx.key, req[r1].ip) = RedisKey(req[r2].ctx.key, req[r2].ip)
            /\ req[r1].born = req[r2].born )
          => req[r1].current # req[r2].current
    /\ \A r \in Reqs :
          (Done(r) /\ req[r].store = "shared" /\ ~req[r].storeFailed /\ req[r].status = "next")
          => req[r].current <= req[r].ctx.maxRequests

\* two checks in flight on one key, the second one over the quota while the first
\* has not armed the TTL yet
C10_Witness ==
    \E r1, r2 \in Reqs :
        /\ req[r1].pc = "awaitExpire" /\ req[r2].pc = "awaitTtl"
        /\ RedisKey(req[r1].ctx.key, req[r1].ip) = RedisKey(req[r2].ctx.key, req[r2].ip)
        /\ req[r1].born = req[r2].born

\* C11: every finished check, whatever its outcome (admitted, 429, 503,
\* bypassed), carries X-RateLimit-Limit and X-RateLimit-Remaining, and carries
\* X-RateLimit-Store only if the local fallback counted it.
C11_HeadersOnEveryOutcome ==
    \A r \in Reqs :
        Done(r) =>
            /\ {"X-RateLimit-Limit", "X-RateLimit-Remaining"} \subseteq req[r].headers
            /\ "X-RateLimit-Store" \in req[r].headers => req[r].store = "memory"

\* the entries of the loaded table that answer a request on their own: a match
\* block, the request's method, a pattern that parses and matches the path
Answering(inp) ==
    { i \in 1..Len(rateConfig.routes) :
        LET e == rateConfig.routes[i] IN
        /\ "match" \in DOMAIN e
        /\ ToUpperCase(Opt(e.match, "method", "GET")) = ToUpperCase(inp.method)
        /\ PatternParses(e.match.url)
        /\ MatchSegs(e.match.url, inp.url.segs) }

BlogOffset == Request("GET", <<"blog", "offset">>, "10.0.0.1", "", <<>>)

\* C12: with the table enabled, a check whose method and path are answered by
\* one or more entries resolves to the entry declared first among them: its name
\* is the routing key and its windowSeconds and maxRequests, where it sets them,
\* are the window and the quota.  GET /blog/offset resolves to blog_slug when
\* /blog/:slug is declared before /blog/offset and to blog_offset in the reverse
\* order.
C12_FirstMatchWins ==
    \A r \in Reqs :
        (req[r].pc # "idle" /\ rateConfig.enabled /\ Answering(req[r].inp) # {}) =>
            /\ \E i \in Answering(req[r].inp) :
                  LET e == rateConfig.routes[i] IN
                  /\ \A j \in Answering(req[r].inp) : i <= j
                  /\ req[r].ctx.key = e.key
                  /\ "windowSeconds" \in DOMAIN e => req[r].ctx.windowSeconds = e.windowSeconds
                  /\ "maxRequests" \in DOMAIN e => req[r].ctx.maxRequests = e.maxRequests
            /\ (req[r].inp = BlogOffset /\ rateConfig = LoadConfig(BlogFile))
                  => req[r].ctx.key = "blog_slug"
            /\ (req[r].inp = BlogOffset /\ rateConfig = LoadConfig(ReversedFile))
                  => req[r].ctx.key = "blog_offset"

\* GET /blog/offset, answered by two entries, was counted under the first one
C12_Witness ==
    \E r \in Reqs :
        /\ Done(r) /\ req[r].inp = BlogOffset
        /\ Cardinality(Answering(req[r].inp)) = 2
        /\ req[r].ctx.key = "blog_offset" /\ req[r].ctx.maxRequests = 1
        /\ req[r].store = "shared" /\ req[r].status = "429"

\* the counter a check was counted on, in the backend that counted it
CounterKey(r) ==
    IF req[r].store = "memory" THEN MemoryKey(req[r].ctx.key, req[r].ip)
    ELSE RedisKey(req[r].ctx.key, req[r].ip)

\* two checks in flight, both counted by the same backend, both for requests of
\* one client that no table entry answers
UnmatchedPair(r1, r2) ==
    /\ r1 # r2
    /\ req[r1].store # "none" /\ req[r1].store = req[r2].store
    /\ req[r1].ip = req[r2].ip
    /\ Answering(req[r1].inp) = {} /\ Answering(req[r2].inp) = {}

\* C13: two requests of one client that no table entry answers are counted on
\* the same counter, whatever their paths.
C13_OneDefaultBucket ==
    \A r1, r2 \in Reqs :
        UnmatchedPair(r1, r2) => CounterKey(r1) = CounterKey(r2)

\* C13, amended: two requests of one client that no table entry answers get the
\* same window and quota, and are counted on the same counter exactly when their
\* paths are equal (the routing key is default:<path>).
C13_DefaultBucketPerPath ==
    \A r1, r2 \in Reqs :
        UnmatchedPair(r1, r2) =>
            /\ req[r1].ctx.windowSeconds = req[r2].ctx.windowSeconds
            /\ req[r1].ctx.maxRequests = req[r2].ctx.maxRequests
            /\ (CounterKey(r1) = CounterKey(r2))
                  <=> (req[r1].inp.url.segs = req[r2].inp.url.segs)

\* two unmatched requests to different paths in flight, each the first of its
\* own counter
C13_Witness ==
    \E r1, r2 \in Reqs :
        /\ UnmatchedPair(r1, r2)
        /\ req[r1].inp.url.segs # req[r2].inp.url.segs
        /\ req[r1].store = "shared"
        /\ req[r1].current = 1 /\ req[r2].current = 1
        /\ req[r1].born = req[r2].born

\* the overrides that apply to a request: those of the first entry answering it,
\* none when the table is disabled or no entry answers
Overrides(inp) ==
    IF rateConfig.enabled /\ Answering(inp) # {}
    THEN rateConfig.routes[CHOOSE i \in Answering(inp) : \A j \in Answering(inp) : i <= j]
    ELSE [f \in {} |-> 0]

\* where a field of the context comes from: "route", "table" or "fallback"
Level(inp, f) ==
    IF f \in DOMAIN Overrides(inp) THEN "route"
    ELSE IF f \in DOMAIN rateConfig.default THEN "table"
    ELSE "fallback"

PostLogin == Request("post", <<"auth", "login">>, "10.0.0.1", "", <<>>)

C15_MutatingStrictByDefault ==
    \A r \in Reqs :
        (req[r].pc # "idle" /\ Level(req[r].inp, "stopInRedisDown") = "fallback") =>
            IF req[r].inp.method \in {"GET", "get"}
            THEN ~req[r].ctx.stopInRedisDown
            ELSE /\ req[r].ctx.stopInRedisDown
                 /\ req[r].store # "memory"
                 /\ "X-RateLimit-Store" \notin req[r].headers
                 /\ req[r].sawDown => req[r].status = "503"

\* post /auth/login, answered by no entry of the table, during an outage
C15_Witness ==
    \E r \in Reqs :
        /\ Done(r) /\ req[r].inp = PostLogin /\ Answering(PostLogin) = {}
        /\ ~redisReady /\ req[r].sawDown /\ req[r].status = "503"
        /\ memoryRateStore = EmptyMap

\* the entries of the loaded table whose pattern does not parse
InvalidEntries ==
    { i \in 1..Len(rateConfig.routes) :
        /\ "match" \in DOMAIN rateConfig.routes[i]
        /\ ~PatternParses(rateConfig.routes[i].match.url) }

\* the entries that carry the request's method
SameMethod(inp) ==
    { i \in 1..Len(rateConfig.routes) :
        /\ "match" \in DOMAIN rateConfig.routes[i]
        /\ ToUpperCase(Opt(rateConfig.routes[i].match, "method", "GET"))
             = ToUpperCase(inp.method) }

MalformedEntries ==
    { i \in 1..Len(rateConfig.routes) : "match" \notin DOMAIN rateConfig.routes[i] }

C18_OneBackendPerCheck ==
    [][ /\ \A r \in Reqs :
              (req'[r] # req[r] /\ req'[r].pc # "idle") =>
                  LET rk == RedisKey(req'[r].ctx.key, req'[r].ip)
                      mk == MemoryKey(req'[r].ctx.key, req'[r].ip)
                  IN  /\ req'[r].store # "memory"
                            => Entry(memoryRateStore', mk) = Entry(memoryRateStore, mk)
                      /\ req'[r].store # "shared"
                            => Entry(redisStore', rk) = Entry(redisStore, rk)
                      /\ req[r].store \notin {"none", req'[r].store} => FALSE
                      /\ (req[r].store = "none" /\ req'[r].store = "shared") =>
                            /\ redisStore'[rk].count = req'[r].current
                            /\ req'[r].current =
                                  (IF RedisLive(redisStore, rk, now)
                                   THEN redisStore[rk].count + 1 ELSE 1)
                      /\ (req[r].store = "none" /\ req'[r].store = "memory") =>
                            /\ memoryRateStore'[mk].count = req'[r].current
                            /\ req'[r].current =
                                  (IF mk \in DOMAIN memoryRateStore
                                      /\ now < memoryRateStore[mk].expiresAt
                                   THEN memoryRateStore[mk].count + 1 ELSE 1)
        /\ (\A r \in Reqs : req'[r] = req[r] \/ req'[r].pc = "idle")
              => UNCHANGED <<redisStore, memoryRateStore>> ]_vars

\* after an outage and the recovery, a check counted by the shared counter while
\* the local record of the same client, left by the outage, holds another count
C18_Witness ==
    \E r \in Reqs :
        LET rk == RedisKey(req[r].ctx.key, req[r].ip)
            mk == MemoryKey(req[r].ctx.key, req[r].ip)
        IN  /\ Done(r) /\ req[r].store = "shared" /\ redisReady
            /\ mk \in DOMAIN memoryRateStore /\ rk \in DOMAIN redisStore
            /\ memoryRateStore[mk].count = 2 /\ redisStore[rk].count = 1
            /\ now < memoryRateStore[mk].expiresAt

\* the unauthenticated reads of a slug that hold a result of the miss path
Delivered(slug) ==
    { r \in Reqs : /\ reads[r].slug = slug /\ ~reads[r].auth
                   /\ reads[r].pc \in {"awaitVersion", "done"}
                   /\ reads[r].result # "NotFound" /\ ~reads[r].cached }

C20_UnpublishedMissIsNotFound ==
    [][ \A r \in Reqs :
          ( /\ reads'[r] # reads[r]
            /\ ~reads'[r].auth
            /\ reads'[r].role \in {"leader", "joined"}
            /\ posts[reads'[r].slug].published = 0 ) =>
              /\ Entry(blogCache', getCacheKey(reads'[r].slug))
                    = Entry(blogCache, getCacheKey(reads'[r].slug))
              /\ Entry(blogCache', VersionKey(reads'[r].slug))
                    = Entry(blogCache, VersionKey(reads'[r].slug))
              /\ reads'[r].pc = "done" => reads'[r].result = "NotFound"
              /\ reads'[r].pc \in {"awaitFetch", "joined", "done"} ]_vars

\* a guest read of post b came back NotFound and left no key behind
C20_Witness ==
    \E r \in Reqs :
        /\ reads[r].pc = "done" /\ reads[r].slug = "b" /\ ~reads[r].auth
        /\ reads[r].role = "leader" /\ reads[r].result = "NotFound"
        /\ redisReady
        /\ getCacheKey("b") \notin DOMAIN blogCache
        /\ VersionKey("b") \notin DOMAIN blogCache

\* the guest read in slot r looks its key up in this step
LooksUp(r) == reads[r].pc = "awaitLookup" /\ reads'[r].pc # "awaitLookup"

\* C21: an invalidation removes the content entry and the version marker of its
\* slug in one step, or, when it fails, neither; and the first lookup of a slug
\* after a successful invalidation is not a hit on content older than the row
\* was at the invalidation.
C21_InvalidationAtomicAndFresh ==
    [][ /\ edit.pc = "awaitDel" /\ edit'.pc = "done" =>
              IF edit'.cache = "ok"
              THEN SlugKeys(edit.slug) \cap DOMAIN blogCache' = {}
              ELSE blogCache' = blogCache
        /\ \A r \in Reqs :
              ( /\ LooksUp(r)
                /\ reads[r].after # 0
                /\ reads[r].after = invalidated[reads[r].slug] ) =>
                  ~(reads'[r].role = "hit" /\ reads'[r].data.rev < reads[r].after) ]_vars

\* C22: once updatePostBySlug, publishedPostBySlug(slug, false) or
\* deletePostBySlug has returned its success result, no guest read is answered
\* from the cache with content older than that edit left in the database.
C22_NoStaleHitAfterWrite ==
    \A r \in Reqs :
        reads[r].pc = "done" /\ reads[r].role = "hit" =>
            reads[r].data.rev >= settled[reads[r].slug]

\* C23: a write handler of BlogService whose database statement changed a row
\* returns its success result, however its cache call ended: done, thrown,
\* skipped on a store that is not ready, or not made at all; and the row stays
\* changed.
C23_CacheFailureNeverFailsWrite ==
    ( /\ edit.pc = "done"
      /\ edit.op \in PostWrites
      /\ edit.dbChanged ) =>
        /\ edit.result = "ok"
        /\ edit.cache \in {"ok", "threw", "skipped", "none"}
        /\ posts[edit.slug].rev > PostsAtStart[edit.slug].rev

\* deletePostBySlug returned true although DEL threw; the stale keys are still
\* in the store
C23_Witness ==
    /\ edit.pc = "done" /\ edit.op = "deletePostBySlug" /\ edit.dbChanged
    /\ edit.cache = "threw" /\ edit.result = "ok"
    /\ ~posts["a"].exists
    /\ ~redisReady
    /\ SlugKeys("a") \subseteq DOMAIN blogCache

\* C24: the total_keys_cleared of a clearAllCache that succeeded is the number
\* of keys its DEL commands removed, whatever other requests did to the keys
\* between a scan and the delete of its batch.
C24_ClearedCountIsDeletedCount ==
    clear.pc = "done" /\ clear.status = "success" => clear.total = clear.removed

\* C25: clearAllCache never fails on a store out of reach: it returns, and when
\* the store was lost before the call or between two of its commands the result
\* is the skipped one, with no key and no batch counted.
C25_ClearToleratesOutage ==
    clear.pc = "done" =>
        /\ clear.status \in {"success", "skipped"}
        /\ clear.status = "skipped" => clear.total = 0 /\ clear.batches = 0

\* the window of the route a shared counter key belongs to
WindowSecondsOf(key) ==
    CHOOSE w \in { getLimitsContext(inp).windowSeconds : inp \in AllInputs } :
        \E inp \in AllInputs :
            /\ RedisKey(getLimitsContext(inp).key, ClientIp(inp)) = key
            /\ getLimitsContext(inp).windowSeconds = w

\* the check in slot r is the one whose increment created key, and its EXPIRE
\* is still to be served
Arming(r, key) ==
    /\ req[r].pc = "awaitExpire" /\ req[r].current = 1
    /\ RedisKey(req[r].ctx.key, req[r].ip) = key

\* a step arms the TTL of key only once, for the check that created the key
ArmedOnlyByFirst(key) ==
    (key \in DOMAIN redisStore /\ key \in DOMAIN redisStore'
       /\ redisStore'[key].born = redisStore[key].born) =>
        IF redisStore[key].hasTtl
        THEN redisStore'[key].hasTtl /\ redisStore'[key].expireAt = redisStore[key].expireAt
        ELSE redisStore'[key].hasTtl =>
                \E r \in Reqs : Arming(r, key) /\ req'[r].pc # "awaitExpire"

\* the TTL of a key ends windowSeconds after the first hit, and a key without
\* one is about to get it
EndsWindowAfterFirstHit(key) ==
    RedisLive(redisStore, key, now) =>
        IF redisStore[key].hasTtl
        THEN redisStore[key].expireAt
                = redisStore[key].born + WindowSecondsOf(key) * MsPerSecond
        ELSE \E r \in Reqs : Arming(r, key)

\* C26: the TTL of a shared counter is armed exactly once per window, by the
\* check whose increment returned 1, and never re-armed or extended by a later
\* check; the window ends windowSeconds after its first hit.
C26_TtlArmedOncePerWindow ==
    /\ [][ \A key \in DOMAIN redisStore : ArmedOnlyByFirst(key) ]_vars
    /\ [](\A key \in DOMAIN redisStore : EndsWindowAfterFirstHit(key))

\* C27: no sequence of checks leaves a shared counter key with a count and no
\* TTL: a live key without one belongs to a check that has incremented it to 1
\* and whose EXPIRE is still to be served.  (No later check arms it, so such a
\* key would never expire.)
C27_NoKeyWithoutTtl ==
    \A key \in DOMAIN redisStore :
        ( /\ RedisLive(redisStore, key, now)
          /\ redisStore[key].count >= 1
          /\ ~redisStore[key].hasTtl ) =>
            \E r \in Reqs : Arming(r, key)

\* what is left, in milliseconds, of the window of the counter the check in
\* slot r incremented; below zero when the counter has no expiry to speak of
Lifetime(r) ==
    IF req[r].store = "memory"
    THEN memoryRateStore[MemoryKey(req[r].ctx.key, req[r].ip)].expiresAt - now
    ELSE LET key == RedisKey(req[r].ctx.key, req[r].ip) IN
         IF RedisLive(redisStore, key, now) /\ redisStore[key].hasTtl
         THEN redisStore[key].expireAt - now
         ELSE 0 - MsPerSecond

\* C28: the retryAfter of every 429 is a positive number of seconds, not above
\* windowSeconds, and is the remaining lifetime of the counter's window to the
\* second, on the local fallback and on the shared counter alike.
C28_RetryAfterIsRemainingLifetime ==
    \A r \in Reqs :
        Done(r) /\ req[r].status = "429" =>
            /\ req[r].retryAfter >= 1
            /\ req[r].retryAfter <= req[r].ctx.windowSeconds
            /\ req[r].retryAfter * MsPerSecond - Lifetime(r) < MsPerSecond
            /\ Lifetime(r) - req[r].retryAfter * MsPerSecond < MsPerSecond

\* the check in slot r goes through the local fallback in this step
HitsLocal(r) == req[r].store # "memory" /\ req'[r].store = "memory"

\* C29: a check on the local fallback that finds a live record (now <
\* expiresAt) leaves expiresAt as it is and adds exactly 1 to count, admitted
\* or denied; one that finds no record, or a record with now >= expiresAt,
\* leaves count = 1 and expiresAt = now + windowSeconds.
C29_LocalHitFrame ==
    [][ \A r \in Reqs :
          HitsLocal(r) =>
              LET key == MemoryKey(req'[r].ctx.key, req'[r].ip)
                  live == key \in DOMAIN memoryRateStore
                          /\ now < memoryRateStore[key].expiresAt
              IN  /\ key \in DOMAIN memoryRateStore'
                  /\ req'[r].status \in {"next", "429"}
                  /\ IF live
                     THEN /\ memoryRateStore'[key].count = memoryRateStore[key].count + 1
                          /\ memoryRateStore'[key].expiresAt = memoryRateStore[key].expiresAt
                     ELSE /\ memoryRateStore'[key].count = 1
                          /\ memoryRateStore'[key].expiresAt
                                = now + req'[r].ctx.windowSeconds * MsPerSecond ]_vars

\* half a second into a window opened at time 0, a third hit on the live record
\* was denied: count 3, the expiry still the one set by the first hit
C29_Witness ==
    \E r \in Reqs :
        LET key == MemoryKey(req[r].ctx.key, req[r].ip) IN
        /\ Done(r) /\ req[r].store = "memory" /\ req[r].status = "429"
        /\ req[r].current = 3 /\ now = TickMs
        /\ memoryRateStore[key].count = 3
        /\ memoryRateStore[key].expiresAt = req[r].ctx.windowSeconds * MsPerSecond

\* C30: no step removes a key from the local map, and the record of a key,
\* expired or not, changes only in a step in which a check for that key goes
\* through the local fallback.
C30_LocalMapNeverPruned ==
    [][ /\ DOMAIN memoryRateStore \subseteq DOMAIN memoryRateStore'
        /\ \A key \in DOMAIN memoryRateStore :
              memoryRateStore'[key] # memoryRateStore[key] =>
                  \E r \in Reqs :
                      HitsLocal(r) /\ MemoryKey(req'[r].ctx.key, req'[r].ip) = key ]_vars

\* the record of one client expired a while ago and is still in the map, after
\* a check of the other client has gone through the local fallback
C30_Witness ==
    \E k1, k2 \in DOMAIN memoryRateStore :
        /\ k1 # k2
        /\ memoryRateStore[k1].expiresAt < now
        /\ memoryRateStore[k2].expiresAt > now
        /\ \E r \in Reqs : /\ Done(r) /\ req[r].store = "memory"
                            /\ MemoryKey(req[r].ctx.key, req[r].ip) = k2
                            /\ req[r].current = 1

\* C31: the backend is chosen by each check from the readiness of the shared
\* store at that check alone.  A check decided on the local fallback (or
\* refused with 503) found the store not ready; a check that found it ready went
\* to the shared counter, also while the local map holds a live record of its
\* key left by earlier checks.  (The local decision is taken in the step that
\* tests readiness, so the store is still as the check found it.)
C31_BackendChosenPerRequest ==
    \A r \in Reqs :
        /\ (Done(r) /\ (req[r].store = "memory" \/ req[r].status = "503")) => ~redisReady
        /\ (Done(r) /\ (req[r].store = "memory" \/ req[r].status = "503")) => req[r].sawDown
        /\ req[r].pc \in {"awaitIncr", "awaitExpire", "awaitTtl"} => ~req[r].sawDown
        /\ req[r].store = "shared" => ~req[r].sawDown

\* shared, local, shared: the store went down after the first check of a client
\* and came back after the second; the third is counted on the shared counter,
\* at 2, while the local record of the outage is still live at 1
C31_Witness ==
    \E r \in Reqs :
        LET mk == MemoryKey(req[r].ctx.key, req[r].ip) IN
        /\ Done(r) /\ req[r].store = "shared" /\ req[r].current = 2
        /\ redisReady /\ started = 3
        /\ mk \in DOMAIN memoryRateStore
        /\ memoryRateStore[mk].count = 1 /\ now < memoryRateStore[mk].expiresAt

\* C32: a check that is not bypassed is admitted by one of the two backends,
\* with a count of that backend's window between 1 and maxRequests.  The counts
\* of one window being all different (C10, C18), at most maxRequests checks are
\* admitted per backend window, and at most twice that across a shared and a
\* local window of one (routing key, client).
C32_AdmittedWithinQuotaPerBackend ==
    \A r \in Reqs :
        (Done(r) /\ req[r].status = "next" /\ ~req[r].bypassed) =>
            /\ req[r].store \in {"shared", "memory"}
            /\ req[r].current >= 1
            /\ req[r].current <= req[r].ctx.maxRequests

\* the read in slot r gets the answer of updatePostVersion in this step
VersionAnswered(r) == reads[r].pc = "awaitVersion" /\ reads'[r].pc = "done"

\* C33: a step of the reads changes the version marker of a slug only when a
\* guest read of that slug that missed the cache and populated it has its
\* marker write served, and then the marker holds the timestamp that read took
\* after the population and lives for the content TTL; every guest read that
\* delivers a post on the miss path while the store is reachable goes through
\* that write; a step of a read that hit, or of an authenticated read, changes
\* neither the content entry nor the marker.
C33_VersionRewrittenOnlyOnPopulation ==
    [][ /\ \A slug \in Slugs :
              Entry(blogCache', VersionKey(slug)) # Entry(blogCache, VersionKey(slug)) =>
                  \E r \in Reqs :
                      /\ VersionAnswered(r) /\ reads[r].slug = slug
                      /\ ~reads[r].auth /\ ~reads[r].cached
                      /\ reads[r].role \in {"leader", "joined"}
        /\ \A r \in Reqs :
              (VersionAnswered(r) /\ redisReady) =>
                  /\ ~reads[r].auth /\ ~reads[r].cached
                  /\ reads[r].role \in {"leader", "joined"}
                  /\ reads[r].version <= now
                  /\ Entry(blogCache', VersionKey(reads[r].slug))
                        = {[value |-> reads[r].version,
                            expireAt |-> now + CacheTtlSeconds * MsPerSecond]}
        /\ \A r \in Reqs :
              ( /\ reads[r].pc # "done" /\ reads'[r].pc = "done"
                /\ ~reads'[r].auth /\ reads'[r].role \in {"leader", "joined"}
                /\ reads'[r].result = "ok" /\ redisReady ) => VersionAnswered(r)
        /\ \A r \in Reqs :
              ( /\ reads'[r] # reads[r]
                /\ reads'[r].auth \/ reads'[r].role = "hit" \/ reads'[r].cached ) =>
                  /\ Entry(blogCache', getCacheKey(reads'[r].slug))
                        = Entry(blogCache, getCacheKey(reads'[r].slug))
                  /\ Entry(blogCache', VersionKey(reads'[r].slug))
                        = Entry(blogCache, VersionKey(reads'[r].slug))
                  /\ reads'[r].pc \in {"awaitDatabase", "awaitLookup", "done"} ]_vars

\* a guest read populated post a one tick in and stamped the marker; a second
\* read hit the entry a tick later and the marker still holds that timestamp
C33_Witness ==
    \E r \in Reqs :
        /\ reads[r].pc = "done" /\ reads[r].role = "hit" /\ ~reads[r].auth
        /\ reads[r].cacheStatus = "cache_hit" /\ reads[r].data.fetch = 1
        /\ started = 2 /\ fetches = 1 /\ now = 2 * TickMs
        /\ VersionKey("a") \in DOMAIN blogCache
        /\ blogCache[VersionKey("a")].value = TickMs
        /\ blogCache[VersionKey("a")].expireAt = TickMs + CacheTtlSeconds * MsPerSecond

\* C34: a guest read that has fetched its post on a miss and handed it to the
\* cache returns the post to its caller, whether the write of the version
\* marker is served, skipped or rejected.
C34_VersionFailureNeverFailsRead ==
    \A r \in Reqs :
        ( /\ reads[r].pc = "done" /\ ~reads[r].auth
          /\ reads[r].role \in {"leader", "joined"}
          /\ reads[r].data # NoData /\ reads[r].data.published = 1 ) =>
              /\ reads[r].result = "ok"
              /\ reads[r].data.slug = reads[r].slug

\* what an audit line of a decision is said to name
AuditFields == {"routingKey", "method", "count", "limit", "window", "backend"}

InBypass(r) == req'[r] # req[r] /\ (req'[r].bypassed \/ req'[r].pc = "awaitRevoked")

\* the token of the check in slot r entitles it to the bypass
TokenGood(r) == BearerToken(req[r].inp) \in SignedTokens \ RevokedTokens

\* C36: no step of a check that the bypass admits changes the shared counters or
\* the local map, and the check is admitted whatever the count of its key; a
\* check with no token, a revoked token or a token that fails verification is
\* not bypassed and goes through the backend selection.
C36_BypassFrameAndGuard ==
    /\ [][ \A r \in Reqs :
              InBypass(r) => /\ UNCHANGED <<redisStore, memoryRateStore>>
                             /\ req'[r].bypassed => req'[r].status = "next" ]_vars
    /\ [](\A r \in Reqs :
              (Done(r) /\ ~TokenGood(r)) =>
                  /\ ~req[r].bypassed
                  /\ req[r].store # "none" \/ req[r].status = "503" \/ req[r].storeFailed)

\* C37: with enabled = false in the table, every check resolves to the key
\* default:<path> with the window and the quota of the table's default block
\* and without trying any entry; it is counted (it asks a backend for its count)
\* or refused with 503, and a check admitted from a count holds a count within
\* the quota.
C37_DisabledStillCounts ==
    /\ ~rateConfig.enabled
    /\ \A r \in Reqs :
          req[r].pc # "idle" =>
              /\ req[r].ctx.key = "default:" \o JoinPath(normalizeUrl(req[r].inp.url).segs)
              /\ req[r].ctx.windowSeconds = DisabledFile.default.windowSeconds
              /\ req[r].ctx.maxRequests = DisabledFile.default.maxRequests
              /\ req[r].compiled = {}
              /\ req[r].pc # "awaitRevoked" /\ ~req[r].bypassed
              /\ Done(r) => \/ req[r].status = "503"
                            \/ req[r].store \in {"shared", "memory"}
                            \/ req[r].storeFailed
              /\ (Done(r) /\ req[r].status = "next" /\ ~req[r].threw) =>
                    /\ req[r].current >= 1
                    /\ req[r].current <= req[r].ctx.maxRequests

\* with the table switched off, the third request for /blog/offset in a burst
\* is answered 429 under the key default:/blog/offset
C37_Witness ==
    \E r \in Reqs :
        /\ ~rateConfig.enabled
        /\ Done(r) /\ req[r].status = "429" /\ req[r].store = "shared"
        /\ req[r].ctx.key = "default:/blog/offset"
        /\ req[r].current = DisabledFile.default.maxRequests + 1

\* C38: the stored value of a counter is never negative, and a decrement that
\* read the value 0 is answered 400 and changes nothing.
C38_CounterNeverNegative ==
    /\ [][ \A c \in Reqs :
              (calls[c].pc = "awaitGet" /\ calls'[c].pc # "awaitGet" /\ redisReady
               /\ CounterGet(counterStore, VisitsKey) = {0}) =>
                  /\ calls'[c].status = "400"
                  /\ counterStore' = counterStore ]_vars
    /\ [](\A key \in DOMAIN counterStore : counterStore[key] >= 0)

\* C39: AuthorService.delete returns true exactly when the author's row was
\* there and its delete removed it, and false exactly when the row was not
\* there; when it returns true it has called deleteCacheBySlug for every post
\* its select found, and it returns true however those calls ended; a call that
\* returns false has made no such call and no step of it changes a cache key.
C39_AuthorDeleteOutcome ==
    /\ [][ (edit' # edit /\ edit'.op = "AuthorService.delete" /\ ~edit'.existed) =>
              /\ blogCache' = blogCache
              /\ edit'.pc = "done" /\ edit'.result = "false" ]_vars
    /\ []((edit.op = "AuthorService.delete" /\ edit.pc = "done") =>
              /\ (edit.result = "ok") <=> (edit.existed /\ edit.dbChanged)
              /\ (edit.result = "false") <=> ~edit.existed
              /\ edit.dbChanged => ~postAuthor
              /\ ~edit.dbChanged => (postAuthor <=> edit.existed)
              /\ edit.result = "ok" =>
                    /\ edit.requested = edit.slugs
                    /\ edit.pending = <<>>
                    /\ edit.failed \subseteq edit.requested
                    /\ edit.cache \in {"ok", "threw", "skipped", "none"}
              /\ edit.result # "ok" => edit.requested = {} /\ edit.cache = "none")

\* the author of both posts was deleted; the invalidation of post a was
\* rejected, its keys are still in the store, and the call returned true
C39_Witness ==
    /\ edit.op = "AuthorService.delete" /\ edit.pc = "done" /\ edit.result = "ok"
    /\ edit.existed /\ ~postAuthor
    /\ edit.requested = {"a", "b"}
    /\ edit.failed = {"a"}
    /\ SlugKeys("a") \subseteq DOMAIN blogCache

====
